---- MODULE Spec2Model ----
(***************************************************************************)
(* State-machine model of the UML diagram generator front end:             *)
(*   - the entity / relationship editor (two builds of the component),     *)
(*   - the submit flow of UMLGenerator (handleSubmit),                     *)
(*   - the mock history store (mockSaveUMLDiagram).                        *)
(* Program strings are sequences of one-character strings, so that trim,   *)
(* toLowerCase and includes are computed as the code computes them.        *)
(***************************************************************************)
EXTENDS Integers, Sequences, FiniteSets, TLC

\* ------------------------------------------------------------------ bounds
MaxEntities == 2
MaxRelationships == 2
\* handleSubmit invocations that can be suspended at one time
MaxFlows == 2
\* cap of the failedAttempts counter
MaxFailedAttempts == 4
\* diagrams the history can hold, and the last reading of the clock
MaxHistory == 3
MaxNow == 3

\* ----------------------------------------------------------------- strings
EmptyStr == <<>>
\* JavaScript's undefined, for an optional string (Relationship.label)
UNDEFINED == <<"undefined">>
\* JavaScript's null, for a nullable index or object
NULL == 0

IsWhitespace(c) == c \in {" ", "\n", "\t"}

RECURSIVE TrimStart(_)
TrimStart(s) == IF s # <<>> /\ IsWhitespace(Head(s)) THEN TrimStart(Tail(s)) ELSE s

RECURSIVE TrimEnd(_)
TrimEnd(s) ==
  IF s # <<>> /\ IsWhitespace(s[Len(s)]) THEN TrimEnd(SubSeq(s, 1, Len(s) - 1)) ELSE s

\* String.prototype.trim
Trim(s) == TrimEnd(TrimStart(s))

\* truthiness of a string-or-undefined value
Truthy(s) == s # UNDEFINED /\ s # EmptyStr

\* ------------------------------------------------------------------ arrays
\* an empty slot of a sparse JavaScript array (created by a[i] = v with i > a.length)
Hole == [hole |-> TRUE]
IsHole(e) == "hole" \in DOMAIN e
HasHole(a) == \E i \in 1..Len(a) : IsHole(a[i])

\* const b = [...a]; b[index] = v, with index counted from 1 here: an assignment past
\* the end leaves empty slots between the old end and index
ArraySet(a, index, v) ==
  IF index <= Len(a) THEN [a EXCEPT ![index] = v]
  ELSE a \o [i \in 1..(index - Len(a) - 1) |-> Hole] \o <<v>>

\* ------------------------------------------------------------------- state
VARIABLES
  editor,               \* which build of EntityRelationshipEditor is mounted
  crashed,              \* a render threw (an undefined array element was read)
  manualEntities,       \* UMLGenerator state, the editor's `entities` prop
  manualRelationships,  \* UMLGenerator state, the editor's `relationships` prop
  loading,              \* UMLGenerator state, the editor's `disabled` prop
  \* form build (src/unnamed/part_006)
  entityName, editingEntityIndex, attributes, methods,
  relationSource, relationTarget, relationType, relationLabel, editingRelationIndex,
  \* modal build (src/src/components/EntityRelationshipEditor.tsx)
  newEntityName, editingEntity, newRelationship,
  \* UMLGenerator
  generator,            \* which build of UMLGenerator is mounted
  description, inputMode, processingStep, processedSpecs, umlSyntax, activeTab,
  lastDiagramId, failedAttempts, showDefinition, apiConnectionError,
  flows,                \* the handleSubmit invocations: where each one is suspended,
                        \* and the values its closure captured at the click
  toasts,               \* the toasts of the latest handler that toasted
  calls,                \* the backend calls of the latest invocation, with outcomes
  \* mock history store (src/src/services/mockData.ts)
  storage,              \* the array under UML_HISTORY_KEY in localStorage
  now,                  \* the clock read by Date.now()
  \* History page (src/src/pages/History.tsx) and the router
  route,                \* the path the router shows
  selectedDiagram,      \* the sessionStorage item 'selectedDiagram'
  diagrams,             \* History state
  historyLoading,       \* History state `loading`
  fetching,             \* the getUMLHistory promise of the mounted History page is pending
  \* MermaidRenderer (src/src/components/MermaidRenderer.tsx)
  chart,                \* the chart prop
  rendering, error,     \* MermaidRenderer state
  innerHTML,            \* the content of the div under mermaidRef (empty while the
                        \* error view, which has no such div, is shown)
  renders,              \* the mermaid.render calls that have not completed
  \* the helper functions applied on their own
  argument,             \* the argument
  returned,             \* the function applied last and what it returned
  \* UMLDefinitionModal (src/unnamed/part_009)
  scrolledToBottom,     \* UMLDefinitionModal state
  effectOpen,           \* the value of `open` at the last run of the effect of [open]
  bottomSeen,           \* history variable: handleScroll has found the bottom since
                        \* the modal was last opened
  \* wait-for-mysql.sh (src/backend/wait-for-mysql.sh)
  scriptArgs,           \* the positional parameters
  scriptPc,             \* the line the shell is at
  cmd,                  \* the shell variable cmd
  probes,               \* history variable: the outcomes of the nc runs so far
  output,               \* what the script has echoed
  started,              \* the argument vectors the shell has exec'ed
  \* history variable: the last cascading handler, its index, the name it found there
  \* and the number of relationships it started from
  lastOp

formVars == <<entityName, editingEntityIndex, attributes, methods,
              relationSource, relationTarget, relationType, relationLabel,
              editingRelationIndex>>
modalVars == <<newEntityName, editingEntity, newRelationship>>
modelVars == <<manualEntities, manualRelationships>>
submitVars == <<generator, description, inputMode, processingStep, processedSpecs,
                umlSyntax, activeTab, lastDiagramId, failedAttempts, showDefinition,
                apiConnectionError, flows, toasts, calls>>
pageVars == <<route, selectedDiagram, diagrams, historyLoading, fetching>>
rendererVars == <<chart, rendering, error, innerHTML, renders>>
pureVars == <<argument, returned>>
definitionVars == <<scrolledToBottom, effectOpen, bottomSeen>>
scriptVars == <<scriptArgs, scriptPc, cmd, probes, output, started>>
componentVars == <<pageVars, rendererVars, pureVars, definitionVars, scriptVars>>
\* what the History page, MermaidRenderer, the helper functions and the
\* definition modal leave alone
pageFrame == <<rendererVars, pureVars, definitionVars, scriptVars>>
rendererFrame == <<pageVars, pureVars, definitionVars, scriptVars>>
pureFrame == <<pageVars, rendererVars, definitionVars, scriptVars>>
definitionFrame == <<pageVars, rendererVars, pureVars, scriptVars>>
scriptFrame == <<pageVars, rendererVars, pureVars, definitionVars>>
historyVars == <<storage, now, componentVars>>
appVars == <<loading, submitVars, historyVars>>
vars == <<editor, crashed, modelVars, formVars, modalVars, appVars, lastOp>>

\* ------------------------------------------------------------------ inputs
NameA == <<"A">>
NameB == <<"B">>
\* what the user types into an entity-name field
NameInputs == {NameA, NameB}
Padded(n) == <<" ">> \o n
RelationTypes == {"association", "inheritance", "composition", "aggregation", "dependency"}
\* the relationship types the user picks in SpecEditorTyped; in SpecEditor the type
\* Select stays at its default
TypeInputs == {"association", "inheritance"}

NoOp == [op |-> "none"]

\* =========================================================================
\* The editor, form build: src/unnamed/part_006
\* =========================================================================
\* every control of this build carries disabled={disabled}
FormEnabled == editor = "form" /\ ~crashed /\ ~loading

\* the entities / relationships the render lists (Array.prototype.map skips empty slots)
Rendered(a) == {i \in 1..Len(a) : ~IsHole(a[i])}
EntityNames == {manualEntities[i].name : i \in Rendered(manualEntities)}

\* Array.prototype.filter((_, i) => i !== index); empty slots are skipped
RECURSIVE FilterOutIndex(_, _, _)
FilterOutIndex(a, index, i) ==
  IF i > Len(a) THEN <<>>
  ELSE IF ~IsHole(a[i]) /\ i # index THEN <<a[i]>> \o FilterOutIndex(a, index, i + 1)
  ELSE FilterOutIndex(a, index, i + 1)

\* rel => rel.source !== entityName && rel.target !== entityName
FormKeepsRelationshipOr(rel, name) == rel.source # name \/ rel.target # name
FormKeepsRelationship(rel, name) == rel.source # name /\ rel.target # name

RECURSIVE FormFilterRelationships(_, _, _)
FormFilterRelationships(rels, name, i) ==
  IF i > Len(rels) THEN <<>>
  ELSE IF ~IsHole(rels[i]) /\ FormKeepsRelationship(rels[i], name)
       THEN <<rels[i]>> \o FormFilterRelationships(rels, name, i + 1)
       ELSE FormFilterRelationships(rels, name, i + 1)

\* the callback of relationships.map in handleAddEntity: the first matching end
\* returns, so the target is looked at only when the source did not match
FormRenameBothEnds(rel, oldEntityName, newName) ==
  [rel EXCEPT !.source = IF rel.source = oldEntityName THEN newName ELSE rel.source,
              !.target = IF rel.target = oldEntityName THEN newName ELSE rel.target]
FormRenameInRelationship(rel, oldEntityName, newName) ==
  IF rel.source = oldEntityName THEN [rel EXCEPT !.source = newName]
  ELSE IF rel.target = oldEntityName THEN [rel EXCEPT !.target = newName]
  ELSE rel

resetEntityFormFields ==
  /\ entityName' = EmptyStr
  /\ attributes' = <<>>
  /\ methods' = <<>>
  /\ editingEntityIndex' = NULL

resetRelationshipForm ==
  /\ relationSource' = EmptyStr
  /\ relationTarget' = EmptyStr
  /\ relationType' = "association"
  /\ relationLabel' = EmptyStr
  /\ editingRelationIndex' = NULL

\* onChange of the entity-name input
FormSetEntityName(n) ==
  /\ FormEnabled
  /\ n # entityName
  /\ entityName' = n
  /\ lastOp' = NoOp
  /\ UNCHANGED <<editor, crashed, modelVars, editingEntityIndex, attributes, methods,
                 relationSource, relationTarget, relationType, relationLabel,
                 editingRelationIndex, modalVars, appVars>>

\* handleAddEntity, add mode (editingEntityIndex === null)
FormAddEntity ==
  /\ FormEnabled
  /\ entityName # EmptyStr
  /\ editingEntityIndex = NULL
  /\ Len(manualEntities) < MaxEntities
  /\ manualEntities' = manualEntities \o
       <<[name |-> entityName, attributes |-> attributes, methods |-> methods]>>
  \* [...entities] reads the empty slots as undefined; the next render reads .name of them
  /\ crashed' = HasHole(manualEntities)
  /\ resetEntityFormFields
  /\ lastOp' = NoOp
  /\ UNCHANGED <<editor, manualRelationships, relationSource, relationTarget, relationType,
                 relationLabel, editingRelationIndex, modalVars, appVars>>

\* handleAddEntity, edit mode, the edited index still inside the list
FormUpdateEntity ==
  /\ FormEnabled
  /\ entityName # EmptyStr
  /\ editingEntityIndex # NULL
  /\ editingEntityIndex <= Len(manualEntities)
  /\ ~IsHole(manualEntities[editingEntityIndex])
  /\ LET newEntity == [name |-> entityName, attributes |-> attributes, methods |-> methods]
         oldEntityName == manualEntities[editingEntityIndex].name
     IN /\ manualEntities' = ArraySet(manualEntities, editingEntityIndex, newEntity)
        /\ manualRelationships' =
             IF oldEntityName # entityName
             THEN [k \in 1..Len(manualRelationships) |->
                     IF IsHole(manualRelationships[k]) THEN Hole
                     ELSE FormRenameInRelationship(manualRelationships[k],
                                                   oldEntityName, entityName)]
             ELSE manualRelationships
        /\ lastOp' = [op |-> "updateEntity", index |-> editingEntityIndex,
                      oldName |-> oldEntityName,
                      relationships |-> Len(manualRelationships)]
  /\ crashed' = HasHole(manualEntities)
  /\ resetEntityFormFields
  /\ UNCHANGED <<editor, relationSource, relationTarget, relationType,
                 relationLabel, editingRelationIndex, modalVars, appVars>>

\* handleAddEntity, edit mode, after deletions moved the list under the edited index:
\* the assignment extends the copy, setEntities is called, and entities[index].name
\* throws a TypeError before the relationships and the form are touched
FormUpdateEntityStale ==
  /\ FormEnabled
  /\ entityName # EmptyStr
  /\ editingEntityIndex # NULL
  /\ IF editingEntityIndex > Len(manualEntities) THEN TRUE
     ELSE IsHole(manualEntities[editingEntityIndex])
  /\ manualEntities' = ArraySet(manualEntities, editingEntityIndex,
       [name |-> entityName, attributes |-> attributes, methods |-> methods])
  /\ crashed' = \E i \in 1..Len(manualEntities) :
                   i # editingEntityIndex /\ IsHole(manualEntities[i])
  /\ lastOp' = NoOp
  /\ UNCHANGED <<editor, manualRelationships, formVars, modalVars, appVars>>

\* handleEditEntity(index)
FormEditEntity(index) ==
  /\ FormEnabled
  /\ index \in Rendered(manualEntities)
  /\ entityName' = manualEntities[index].name
  /\ attributes' = manualEntities[index].attributes
  /\ methods' = manualEntities[index].methods
  /\ editingEntityIndex' = index
  /\ lastOp' = NoOp
  /\ UNCHANGED <<editor, crashed, modelVars, relationSource, relationTarget, relationType,
                 relationLabel, editingRelationIndex, modalVars, appVars>>

\* the Cancel button of the entity form, shown while editingEntityIndex !== null
FormCancelEntity ==
  /\ FormEnabled
  /\ editingEntityIndex # NULL
  /\ resetEntityFormFields
  /\ lastOp' = NoOp
  /\ UNCHANGED <<editor, crashed, modelVars, relationSource, relationTarget, relationType,
                 relationLabel, editingRelationIndex, modalVars, appVars>>

\* handleDeleteEntity(index)
FormDeleteEntity(index) ==
  /\ FormEnabled
  /\ index \in Rendered(manualEntities)
  /\ manualEntities' = FilterOutIndex(manualEntities, index, 1)
  /\ manualRelationships' =
       FormFilterRelationships(manualRelationships, manualEntities[index].name, 1)
  /\ lastOp' = [op |-> "deleteEntity", index |-> index,
                oldName |-> manualEntities[index].name,
                relationships |-> Len(manualRelationships)]
  /\ UNCHANGED <<editor, crashed, formVars, modalVars, appVars>>

\* the options of the source / target Select: the names of the rendered entities; the
\* Select is disabled while entities.length === 0
FormSetRelationSource(v) ==
  /\ FormEnabled
  /\ Len(manualEntities) # 0
  /\ v \in EntityNames
  /\ v # relationSource
  /\ relationSource' = v
  /\ lastOp' = NoOp
  /\ UNCHANGED <<editor, crashed, modelVars, entityName, editingEntityIndex, attributes,
                 methods, relationTarget, relationType, relationLabel,
                 editingRelationIndex, modalVars, appVars>>

FormSetRelationTarget(v) ==
  /\ FormEnabled
  /\ Len(manualEntities) # 0
  /\ v \in EntityNames
  /\ v # relationTarget
  /\ relationTarget' = v
  /\ lastOp' = NoOp
  /\ UNCHANGED <<editor, crashed, modelVars, entityName, editingEntityIndex, attributes,
                 methods, relationSource, relationType, relationLabel,
                 editingRelationIndex, modalVars, appVars>>

FormSetRelationType(t) ==
  /\ FormEnabled
  /\ t # relationType
  /\ relationType' = t
  /\ lastOp' = NoOp
  /\ UNCHANGED <<editor, crashed, modelVars, entityName, editingEntityIndex, attributes,
                 methods, relationSource, relationTarget, relationLabel,
                 editingRelationIndex, modalVars, appVars>>

\* the Add / Update Relationship button is disabled while a field is empty or
\* relationSource === relationTarget
FormRelationshipButton ==
  /\ FormEnabled
  /\ relationSource # EmptyStr
  /\ relationTarget # EmptyStr
  /\ relationSource # relationTarget

FormNewRelationship ==
  [source |-> relationSource, target |-> relationTarget, type |-> relationType,
   label |-> IF relationLabel = EmptyStr THEN UNDEFINED ELSE relationLabel]

\* handleAddRelationship, add mode
FormAddRelationship ==
  /\ FormRelationshipButton
  /\ editingRelationIndex = NULL
  /\ Len(manualRelationships) < MaxRelationships
  /\ manualRelationships' = manualRelationships \o <<FormNewRelationship>>
  /\ crashed' = HasHole(manualRelationships)
  /\ resetRelationshipForm
  /\ lastOp' = NoOp
  /\ UNCHANGED <<editor, manualEntities, entityName, editingEntityIndex, attributes,
                 methods, modalVars, appVars>>

\* handleAddRelationship, edit mode: updatedRelationships[editingRelationIndex] = ...
FormUpdateRelationship ==
  /\ FormRelationshipButton
  /\ editingRelationIndex # NULL
  /\ manualRelationships' =
       ArraySet(manualRelationships, editingRelationIndex, FormNewRelationship)
  /\ crashed' = \E i \in 1..Len(manualRelationships) :
                   i # editingRelationIndex /\ IsHole(manualRelationships[i])
  /\ resetRelationshipForm
  /\ lastOp' = NoOp
  /\ UNCHANGED <<editor, manualEntities, entityName, editingEntityIndex, attributes,
                 methods, modalVars, appVars>>

\* handleEditRelationship(index)
FormEditRelationship(index) ==
  /\ FormEnabled
  /\ index \in Rendered(manualRelationships)
  /\ relationSource' = manualRelationships[index].source
  /\ relationTarget' = manualRelationships[index].target
  /\ relationType' = manualRelationships[index].type
  /\ relationLabel' = IF Truthy(manualRelationships[index].label)
                      THEN manualRelationships[index].label ELSE EmptyStr
  /\ editingRelationIndex' = index
  /\ lastOp' = NoOp
  /\ UNCHANGED <<editor, crashed, modelVars, entityName, editingEntityIndex, attributes,
                 methods, modalVars, appVars>>

\* the Cancel button of the relationship form
FormCancelRelationship ==
  /\ FormEnabled
  /\ editingRelationIndex # NULL
  /\ resetRelationshipForm
  /\ lastOp' = NoOp
  /\ UNCHANGED <<editor, crashed, modelVars, entityName, editingEntityIndex, attributes,
                 methods, modalVars, appVars>>

\* handleDeleteRelationship(index)
FormDeleteRelationship(index) ==
  /\ FormEnabled
  /\ index \in Rendered(manualRelationships)
  /\ manualRelationships' = FilterOutIndex(manualRelationships, index, 1)
  /\ lastOp' = NoOp
  /\ UNCHANGED <<editor, crashed, manualEntities, formVars, modalVars, appVars>>

\* =========================================================================
\* The editor, modal build: src/src/components/EntityRelationshipEditor.tsx
\* =========================================================================
\* the controls of the two tabs carry disabled={disabled}
ModalEnabled == editor = "modal" /\ ~crashed /\ ~loading

\* splice(index, 1) on a copy
Spliced(a, index) == SubSeq(a, 1, index - 1) \o SubSeq(a, index + 1, Len(a))

\* rel => rel.source !== deletedEntityName && rel.target !== deletedEntityName
ModalKeepsRelationshipOr(rel, name) == rel.source # name \/ rel.target # name
ModalKeepsRelationship(rel, name) == rel.source # name /\ rel.target # name

RECURSIVE ModalFilterRelationships(_, _)
ModalFilterRelationships(rels, name) ==
  IF rels = <<>> THEN <<>>
  ELSE IF ModalKeepsRelationship(Head(rels), name)
       THEN <<Head(rels)>> \o ModalFilterRelationships(Tail(rels), name)
       ELSE ModalFilterRelationships(Tail(rels), name)

EmptyRelationship ==
  [source |-> EmptyStr, target |-> EmptyStr, type |-> "association", label |-> EmptyStr]

\* onChange of the New Entity Name input
ModalSetNewEntityName(n) ==
  /\ ModalEnabled
  /\ n # newEntityName
  /\ newEntityName' = n
  /\ lastOp' = NoOp
  /\ UNCHANGED <<editor, crashed, modelVars, formVars, editingEntity, newRelationship,
                 appVars>>

\* handleAddEntity
ModalAddEntity ==
  /\ ModalEnabled
  /\ Trim(newEntityName) # EmptyStr
  /\ Len(manualEntities) < MaxEntities
  /\ manualEntities' = manualEntities \o
       <<[name |-> Trim(newEntityName), attributes |-> <<>>, methods |-> <<>>]>>
  /\ newEntityName' = EmptyStr
  /\ lastOp' = NoOp
  /\ UNCHANGED <<editor, crashed, manualRelationships, formVars, editingEntity,
                 newRelationship, appVars>>

\* handleDeleteEntity(index)
ModalDeleteEntity(index) ==
  /\ ModalEnabled
  /\ index \in 1..Len(manualEntities)
  /\ manualEntities' = Spliced(manualEntities, index)
  /\ manualRelationships' =
       ModalFilterRelationships(manualRelationships, manualEntities[index].name)
  /\ lastOp' = [op |-> "deleteEntity", index |-> index,
                oldName |-> manualEntities[index].name,
                relationships |-> Len(manualRelationships)]
  /\ UNCHANGED <<editor, crashed, formVars, modalVars, appVars>>

\* handleEditEntity(entity): opens the entity editor on a copy of the entity
ModalEditEntity(index) ==
  /\ ModalEnabled
  /\ index \in 1..Len(manualEntities)
  /\ editingEntity' = <<manualEntities[index]>>
  /\ lastOp' = NoOp
  /\ UNCHANGED <<editor, crashed, modelVars, formVars, newEntityName, newRelationship,
                 appVars>>

\* handleSaveEntity: the Save button of the entity editor carries no disabled prop
ModalSaveEntity ==
  /\ editor = "modal" /\ ~crashed
  /\ editingEntity # <<>>
  /\ manualEntities' = [i \in 1..Len(manualEntities) |->
                          IF manualEntities[i].name = editingEntity[1].name
                          THEN editingEntity[1] ELSE manualEntities[i]]
  /\ editingEntity' = <<>>
  /\ lastOp' = NoOp
  /\ UNCHANGED <<editor, crashed, manualRelationships, formVars, newEntityName,
                 newRelationship, appVars>>

\* handleCancelEdit
ModalCancelEdit ==
  /\ editor = "modal" /\ ~crashed
  /\ editingEntity # <<>>
  /\ editingEntity' = <<>>
  /\ lastOp' = NoOp
  /\ UNCHANGED <<editor, crashed, modelVars, formVars, newEntityName, newRelationship,
                 appVars>>

\* onValueChange of the Source Entity Select
ModalSetSource(v) ==
  /\ ModalEnabled
  /\ Len(manualEntities) # 0
  /\ v \in EntityNames
  /\ v # newRelationship.source
  /\ newRelationship' = [newRelationship EXCEPT !.source = v]
  /\ lastOp' = NoOp
  /\ UNCHANGED <<editor, crashed, modelVars, formVars, newEntityName, editingEntity,
                 appVars>>

\* onValueChange of the Target Entity Select
ModalSetTarget(v) ==
  /\ ModalEnabled
  /\ Len(manualEntities) # 0
  /\ v \in EntityNames
  /\ v # newRelationship.target
  /\ newRelationship' = [newRelationship EXCEPT !.target = v]
  /\ lastOp' = NoOp
  /\ UNCHANGED <<editor, crashed, modelVars, formVars, newEntityName, editingEntity,
                 appVars>>

\* onValueChange of the Relationship Type Select
ModalSetType(t) ==
  /\ ModalEnabled
  /\ t # newRelationship.type
  /\ newRelationship' = [newRelationship EXCEPT !.type = t]
  /\ lastOp' = NoOp
  /\ UNCHANGED <<editor, crashed, modelVars, formVars, newEntityName, editingEntity,
                 appVars>>

\* handleAddRelationship
ModalAddRelationship ==
  /\ ModalEnabled
  /\ newRelationship.source # EmptyStr
  /\ newRelationship.target # EmptyStr
  /\ Len(manualRelationships) < MaxRelationships
  /\ manualRelationships' = manualRelationships \o <<newRelationship>>
  /\ newRelationship' = EmptyRelationship
  /\ lastOp' = NoOp
  /\ UNCHANGED <<editor, crashed, manualEntities, formVars, newEntityName, editingEntity,
                 appVars>>

\* handleDeleteRelationship(index)
ModalDeleteRelationship(index) ==
  /\ ModalEnabled
  /\ index \in 1..Len(manualRelationships)
  /\ manualRelationships' = Spliced(manualRelationships, index)
  /\ lastOp' = NoOp
  /\ UNCHANGED <<editor, crashed, manualEntities, formVars, modalVars, appVars>>

\* UMLGenerator: state after construction
FlowIds == 1..MaxFlows
IdleFlow == [pc |-> "idle"]

InitPage ==
  /\ route = "/"
  /\ selectedDiagram = <<>>
  /\ diagrams = <<>>
  /\ historyLoading = TRUE
  /\ fetching = FALSE

\* no diagram has been handed to MermaidRenderer
InitRendererIdle ==
  /\ chart = EmptyStr
  /\ rendering = FALSE
  /\ error = <<>>
  /\ innerHTML = EmptyStr
  /\ renders = <<>>

InitGeneratorState ==
  /\ description = EmptyStr
  /\ processingStep = "idle"
  /\ processedSpecs = <<>>
  /\ umlSyntax = <<>>
  /\ activeTab = "specifications"
  /\ lastDiagramId = NULL
  /\ failedAttempts = 0
  /\ showDefinition = FALSE
  /\ apiConnectionError = FALSE
  /\ flows = [f \in FlowIds |-> IdleFlow]
  /\ toasts = <<>>
  /\ calls = <<>>
  /\ storage = <<>>
  /\ now = 0
  /\ InitPage

\* no helper function is being applied on its own
InitPureIdle ==
  /\ argument = <<>>
  /\ returned = <<>>

InitDefinitionModal ==
  /\ scrolledToBottom = FALSE
  /\ effectOpen = FALSE
  /\ bottomSeen = FALSE

\* the script is not running
InitScriptIdle ==
  /\ scriptArgs = <<>>
  /\ scriptPc = "none"
  /\ cmd = EmptyStr
  /\ probes = <<>>
  /\ output = <<>>
  /\ started = <<>>

InitSubmitState ==
  /\ InitGeneratorState
  /\ InitRendererIdle
  /\ InitPureIdle
  /\ InitDefinitionModal
  /\ InitScriptIdle

\* =========================================================================
\* The editor on its own: UMLGenerator mounted in separate mode, no submit in flight
\* =========================================================================
InitForm ==
  /\ entityName = EmptyStr
  /\ editingEntityIndex = NULL
  /\ attributes = <<>>
  /\ methods = <<>>
  /\ relationSource = EmptyStr
  /\ relationTarget = EmptyStr
  /\ relationType = "association"
  /\ relationLabel = EmptyStr
  /\ editingRelationIndex = NULL

InitModal ==
  /\ newEntityName = EmptyStr
  /\ editingEntity = <<>>
  /\ newRelationship = EmptyRelationship

InitEditor ==
  /\ editor \in {"form", "modal"}
  /\ generator = "current"
  /\ inputMode = "separate"
  /\ InitSubmitState
  /\ crashed = FALSE
  /\ manualEntities = <<>>
  /\ manualRelationships = <<>>
  /\ loading = FALSE
  /\ InitForm
  /\ InitModal
  /\ lastOp = NoOp

NextEditor ==
  \/ \E n \in NameInputs \cup {EmptyStr} : FormSetEntityName(n)
  \/ FormAddEntity
  \/ FormUpdateEntity
  \/ FormUpdateEntityStale
  \/ \E i \in 1..MaxEntities : FormEditEntity(i)
  \/ FormCancelEntity
  \/ \E i \in 1..MaxEntities : FormDeleteEntity(i)
  \/ \E v \in NameInputs : FormSetRelationSource(v)
  \/ \E v \in NameInputs : FormSetRelationTarget(v)
  \/ FormAddRelationship
  \/ FormUpdateRelationship
  \/ \E i \in 1..MaxRelationships : FormEditRelationship(i)
  \/ FormCancelRelationship
  \/ \E i \in 1..MaxRelationships : FormDeleteRelationship(i)
  \/ \E n \in NameInputs \cup {Padded(NameA), EmptyStr} : ModalSetNewEntityName(n)
  \/ ModalAddEntity
  \/ \E i \in 1..MaxEntities : ModalDeleteEntity(i)
  \/ \E i \in 1..MaxEntities : ModalEditEntity(i)
  \/ ModalSaveEntity
  \/ ModalCancelEdit
  \/ \E v \in NameInputs : ModalSetSource(v)
  \/ \E v \in NameInputs : ModalSetTarget(v)
  \/ ModalAddRelationship
  \/ \E i \in 1..MaxRelationships : ModalDeleteRelationship(i)

SpecEditor == InitEditor /\ [][NextEditor]_vars

\* the same editor with the relationship-type Select in use
NextEditorTyped ==
  \/ NextEditor
  \/ \E t \in TypeInputs : FormSetRelationType(t)
  \/ \E t \in TypeInputs : ModalSetType(t)

SpecEditorTyped == InitEditor /\ [][NextEditorTyped]_vars

\* =========================================================================
\* Claims about the editor
\* =========================================================================
\* the elements of an array, its empty slots left out
Dense(a) == SelectSeq(a, LAMBDA e : ~IsHole(e))

\* C1: in every reachable state of the editor, every relationship of the
\* relationships list has a source and a target that are each the name of an entity
\* currently in the entities list.
C1_ReferentialIntegrity ==
  \A k \in Rendered(manualRelationships) :
     /\ manualRelationships[k].source \in EntityNames
     /\ manualRelationships[k].target \in EntityNames

C3_RenameCascades ==
  [][(lastOp'.op = "updateEntity"
      /\ manualEntities'[lastOp'.index].name # lastOp'.oldName) =>
       LET old == lastOp'.oldName
           new == manualEntities'[lastOp'.index].name
       IN /\ Len(manualRelationships') = Len(manualRelationships)
          /\ \A k \in Rendered(manualRelationships) :
               /\ manualRelationships'[k].source =
                    (IF manualRelationships[k].source = old THEN new
                     ELSE manualRelationships[k].source)
               /\ manualRelationships'[k].target =
                    (IF manualRelationships[k].target = old THEN new
                     ELSE manualRelationships[k].target)
               /\ manualRelationships'[k].type = manualRelationships[k].type
               /\ manualRelationships'[k].label = manualRelationships[k].label]_vars

\* =========================================================================
\* UMLGenerator: the pure functions of handleSubmit
\* =========================================================================
UpperAlphabet ==
  <<"A", "B", "C", "D", "E", "F", "G", "H", "I", "J", "K", "L", "M", "N", "O", "P", "Q",
    "R", "S", "T", "U", "V", "W", "X", "Y", "Z">>
LowerAlphabet ==
  <<"a", "b", "c", "d", "e", "f", "g", "h", "i", "j", "k", "l", "m", "n", "o", "p", "q",
    "r", "s", "t", "u", "v", "w", "x", "y", "z">>

AlphabetIndex(alphabet, c) == CHOOSE i \in 1..Len(alphabet) : alphabet[i] = c
IsUpper(c) == \E i \in 1..Len(UpperAlphabet) : UpperAlphabet[i] = c
IsLower(c) == \E i \in 1..Len(LowerAlphabet) : LowerAlphabet[i] = c

\* String.prototype.toLowerCase / toUpperCase
ToLowerCase(s) ==
  [i \in 1..Len(s) |->
     IF IsUpper(s[i]) THEN LowerAlphabet[AlphabetIndex(UpperAlphabet, s[i])] ELSE s[i]]
ToUpperCase(s) ==
  [i \in 1..Len(s) |->
     IF IsLower(s[i]) THEN UpperAlphabet[AlphabetIndex(LowerAlphabet, s[i])] ELSE s[i]]

\* String.prototype.includes
Includes(s, word) ==
  \E i \in 1..(Len(s) - Len(word) + 1) : \A k \in 1..Len(word) : s[i + k - 1] = word[k]

\* Array.prototype.slice(0, n)
SliceTo(a, n) == SubSeq(a, 1, IF Len(a) < n THEN Len(a) ELSE n)

REQUIRED_WORD_SETS ==
  << <<<<"a", "t", "t", "r", "i", "b", "u", "t", "e">>>>,
     <<<<"m", "e", "t", "h", "o", "d">>>>,
     <<<<"r", "e", "l", "a", "t", "i", "o", "n", "s", "h", "i", "p">>>>,
     <<<<"e", "n", "t", "i", "t", "y">>, <<"c", "l", "a", "s", "s">>>> >>

EveryWordIncluded(lower, ws) == \A i \in 1..Len(ws) : Includes(lower, ws[i])
\* ws.some(word => lower.includes(word))
SomeWordIncluded(lower, ws) == \E i \in 1..Len(ws) : Includes(lower, ws[i])

\* the word sets of which the description contains no word
getMissingWords(desc) ==
  LET lower == ToLowerCase(desc)
  IN  SelectSeq(REQUIRED_WORD_SETS, LAMBDA ws : ~SomeWordIncluded(lower, ws))

\* e.attributes?.length > 0 && e.methods?.length > 0
HasAttributeAndMethod(e) ==
  /\ IF "attributes" \in DOMAIN e THEN Len(e.attributes) > 0 ELSE FALSE
  /\ IF "methods" \in DOMAIN e THEN Len(e.methods) > 0 ELSE FALSE

AtLeastOneEntity(specs) ==
  IF "entities" \in DOMAIN specs THEN Len(specs.entities) >= 1 ELSE FALSE
AtLeastTwoEntities(specs) ==
  IF "entities" \in DOMAIN specs THEN Len(specs.entities) >= 2 ELSE FALSE

\* the three conditions of checkUMLValidity, on a non-null response
checkUMLValidity(specs) ==
  IF ~AtLeastTwoEntities(specs) THEN FALSE
  ELSE IF ~(\A i \in 1..Len(specs.entities) : HasAttributeAndMethod(specs.entities[i]))
    THEN FALSE
  ELSE IF "relationships" \in DOMAIN specs THEN Len(specs.relationships) >= 1
  ELSE FALSE

\* String.prototype.split(/\s+/)
RECURSIVE SplitWhitespace(_, _, _)
SplitWhitespace(s, word, inGap) ==
  IF s = <<>> THEN <<word>>
  ELSE IF IsWhitespace(Head(s))
    THEN IF inGap THEN SplitWhitespace(Tail(s), <<>>, TRUE)
         ELSE <<word>> \o SplitWhitespace(Tail(s), <<>>, TRUE)
  ELSE SplitWhitespace(Tail(s), Append(word, Head(s)), FALSE)

\* name.replace(/,+$/, '')
RECURSIVE StripTrailingCommas(_)
StripTrailingCommas(s) ==
  IF s # <<>> /\ s[Len(s)] = "," THEN StripTrailingCommas(SubSeq(s, 1, Len(s) - 1)) ELSE s

capitalizeFirstLetter(s) ==
  IF s = <<>> THEN s ELSE ToUpperCase(<<Head(s)>>) \o Tail(s)

\* an array left with its duplicates
KeepDuplicates(a, i) == a

\* filter((value, index, self) => self.indexOf(value) === index)
RECURSIVE RemoveDuplicates(_, _)
RemoveDuplicates(a, i) ==
  IF i > Len(a) THEN <<>>
  ELSE (IF \E j \in 1..(i - 1) : a[j] = a[i] THEN <<>> ELSE <<a[i]>>)
       \o RemoveDuplicates(a, i + 1)

IsPotentialEntity(word) == Len(word) > 3 /\ IsUpper(Head(word))

potentialEntities(desc) ==
  LET words == SplitWhitespace(desc, <<>>, FALSE)
      taken == SliceTo(SelectSeq(words, IsPotentialEntity), 3)
      names == [i \in 1..Len(taken) |-> capitalizeFirstLetter(StripTrailingCommas(taken[i]))]
      unique == RemoveDuplicates(names, 1)
  IN  IF Len(unique) < 2 THEN unique \o <<<<"E", "n", "t", "i", "t", "y", "1">>, <<"E", "n", "t", "i", "t", "y", "2">>>> ELSE unique

MockEntity(name) ==
  [name |-> name,
   attributes |-> << [name |-> <<"i", "d">>, type |-> <<"i", "n", "t">>, visibility |-> "private"],
                     [name |-> <<"n", "a", "m", "e">>, type |-> <<"s", "t", "r", "i", "n", "g">>, visibility |-> "public"] >>,
   methods |-> << [name |-> <<"g", "e", "t">> \o name, returnType |-> name, parameters |-> <<>>,
                   visibility |-> "public"],
                  [name |-> <<"u", "p", "d", "a", "t", "e">> \o name, returnType |-> <<"b", "o", "o", "l", "e", "a", "n">>,
                   parameters |-> <<[name |-> <<"d", "a", "t", "a">>, type |-> name]>>,
                   visibility |-> "public"] >>]

createBareMockResponse(desc) ==
  LET names == SliceTo(potentialEntities(desc), 3)
      entities == [i \in 1..Len(names) |-> [MockEntity(names[i]) EXCEPT !.methods = <<>>]]
  IN  [enhancedDescription |-> <<"This is a mock response for: ", desc>>,
       entities |-> entities,
       relationships |-> << [source |-> entities[1].name, target |-> entities[2].name,
                             type |-> "association", label |-> <<"r">>] >>]
createMockResponse(desc) ==
  LET names == SliceTo(potentialEntities(desc), 3)
      entities == [i \in 1..Len(names) |-> MockEntity(names[i])]
  IN  [enhancedDescription |-> <<"This is a mock response for: ", desc>>,
       entities |-> entities,
       relationships |-> << [source |-> entities[1].name, target |-> entities[2].name,
                             type |-> "association", label |-> <<"r", "e", "l", "a", "t", "e", "s", " ", "t", "o">>] >>]

\* specs.name, undefined when the object has no such property
Property(specs, name) == IF name \in DOMAIN specs THEN specs[name] ELSE UNDEFINED

\* the request of generateUML
UMLRequest(specs) ==
  [entities |-> Property(specs, "entities"),
   relationships |-> Property(specs, "relationships")]

\* a diagram text, by the renderer that wrote it and the model it drew
generateMockUmlSyntax(specs) ==
  [renderer |-> "generateMockUmlSyntax", entities |-> specs.entities,
   relationships |-> specs.relationships]
BackendUmlSyntax(request) ==
  [renderer |-> "backend", entities |-> request.entities,
   relationships |-> request.relationships]

ManualSpecs(entities, relationships) ==
  [enhancedDescription |-> <<"Manually defined entities and relationships">>,
   entities |-> entities, relationships |-> relationships]

\* =========================================================================
\* UMLGenerator: inputs of the submit flow
\* =========================================================================
\* what the user types into the Textarea
DescBlank == <<" ", " ">>
DescPlural ==
  <<"e", "n", "t", "i", "t", "i", "e", "s", " ", "a", "t", "t", "r", "i", "b", "u", "t",
    "e", "s", " ", "m", "e", "t", "h", "o", "d", "s", " ", "r", "e", "l", "a", "t", "i",
    "o", "n", "s", "h", "i", "p", "s">>
DescClasses ==
  <<"c", "l", "a", "s", "s", "e", "s", " ", "a", "t", "t", "r", "i", "b", "u", "t", "e",
    "s", " ", "m", "e", "t", "h", "o", "d", "s", " ", "r", "e", "l", "a", "t", "i", "o",
    "n", "s", "h", "i", "p", "s">>
DescUpper ==
  <<"E", "N", "T", "I", "T", "Y", " ", "A", "T", "T", "R", "I", "B", "U", "T", "E", " ",
    "M", "E", "T", "H", "O", "D", " ", "R", "E", "L", "A", "T", "I", "O", "N", "S", "H",
    "I", "P">>
DescOrder ==
  <<"O", "r", "d", "e", "r", ",", " ", "I", "t", "e", "m", " ", "c", "l", "a", "s", "s",
    " ", "a", "t", "t", "r", "i", "b", "u", "t", "e", " ", "m", "e", "t", "h", "o", "d",
    " ", "r", "e", "l", "a", "t", "i", "o", "n", "s", "h", "i", "p">>
DescriptionInputs == {EmptyStr, DescBlank, DescPlural, DescClasses, DescUpper, DescOrder}

\* the descriptions of the example buttons
ExampleEcommerce ==
  <<"A", "n", " ", "o", "n", "l", "i", "n", "e", " ", "s", "h", "o", "p", "p", "i", "n",
    "g", " ", "s", "y", "s", "t", "e", "m", " ", "w", "i", "t", "h", " ", "U", "s", "e",
    "r", "s", ",", " ", "P", "r", "o", "d", "u", "c", "t", "s", ",", " ", "O", "r", "d",
    "e", "r", "s", ",", " ", "a", "n", "d", " ", "S", "h", "o", "p", "p", "i", "n", "g",
    " ", "C", "a", "r", "t", ".", " ", "U", "s", "e", "r", "s", " ", "c", "a", "n", " ",
    "b", "r", "o", "w", "s", "e", " ", "p", "r", "o", "d", "u", "c", "t", "s", ",", " ",
    "a", "d", "d", " ", "t", "h", "e", "m", " ", "t", "o", " ", "c", "a", "r", "t", ",",
    " ", "a", "n", "d", " ", "p", "l", "a", "c", "e", " ", "o", "r", "d", "e", "r", "s",
    ".", " ", "A", "d", "m", "i", "n", "s", " ", "c", "a", "n", " ", "m", "a", "n", "a",
    "g", "e", " ", "p", "r", "o", "d", "u", "c", "t", " ", "i", "n", "v", "e", "n", "t",
    "o", "r", "y", ".">>
ExampleLibrary ==
  <<"A", " ", "s", "y", "s", "t", "e", "m", " ", "t", "o", " ", "m", "a", "n", "a", "g",
    "e", " ", "a", " ", "l", "i", "b", "r", "a", "r", "y", " ", "w", "i", "t", "h", " ",
    "B", "o", "o", "k", "s", ",", " ", "M", "e", "m", "b", "e", "r", "s", ",", " ", "L",
    "i", "b", "r", "a", "r", "i", "a", "n", "s", ",", " ", "a", "n", "d", " ", "B", "o",
    "r", "r", "o", "w", "i", "n", "g", " ", "r", "e", "c", "o", "r", "d", "s", ".", " ",
    "M", "e", "m", "b", "e", "r", "s", " ", "c", "a", "n", " ", "b", "o", "r", "r", "o",
    "w", " ", "b", "o", "o", "k", "s", ",", " ", "l", "i", "b", "r", "a", "r", "i", "a",
    "n", "s", " ", "c", "a", "n", " ", "m", "a", "n", "a", "g", "e", " ", "i", "n", "v",
    "e", "n", "t", "o", "r", "y", " ", "a", "n", "d", " ", "m", "e", "m", "b", "e", "r",
    " ", "a", "c", "c", "o", "u", "n", "t", "s", ".">>
ExampleHospital ==
  <<"A", " ", "h", "o", "s", "p", "i", "t", "a", "l", " ", "s", "y", "s", "t", "e", "m",
    " ", "w", "i", "t", "h", " ", "P", "a", "t", "i", "e", "n", "t", "s", ",", " ", "D",
    "o", "c", "t", "o", "r", "s", ",", " ", "N", "u", "r", "s", "e", "s", ",", " ", "a",
    "n", "d", " ", "A", "p", "p", "o", "i", "n", "t", "m", "e", "n", "t", "s", ".", " ",
    "P", "a", "t", "i", "e", "n", "t", "s", " ", "c", "a", "n", " ", "s", "c", "h", "e",
    "d", "u", "l", "e", " ", "a", "p", "p", "o", "i", "n", "t", "m", "e", "n", "t", "s",
    " ", "w", "i", "t", "h", " ", "d", "o", "c", "t", "o", "r", "s", ".", " ", "D", "o",
    "c", "t", "o", "r", "s", " ", "c", "a", "n", " ", "p", "r", "e", "s", "c", "r", "i",
    "b", "e", " ", "m", "e", "d", "i", "c", "a", "t", "i", "o", "n", "s", " ", "a", "n",
    "d", " ", "t", "r", "e", "a", "t", "m", "e", "n", "t", "s", ".">>
ExampleInputs == {ExampleEcommerce, ExampleLibrary, ExampleHospital}

SampleAttribute == [name |-> <<"i", "d">>, type |-> <<"i", "n", "t">>, visibility |-> "private"]
SampleMethod ==
  [name |-> <<"r", "u", "n">>, returnType |-> <<"v", "o", "i", "d">>, parameters |-> <<>>, visibility |-> "public"]
FullEntity(name) ==
  [name |-> name, attributes |-> <<SampleAttribute>>, methods |-> <<SampleMethod>>]
BareEntity(name) == [name |-> name, attributes |-> <<SampleAttribute>>, methods |-> <<>>]
SampleRelationship ==
  [source |-> NameA, target |-> NameB, type |-> "association", label |-> UNDEFINED]

\* models the editor can hold when Generate is clicked
ManualModels ==
  { [entities |-> <<>>, relationships |-> <<>>],
    [entities |-> <<FullEntity(NameA)>>,
     relationships |-> <<[SampleRelationship EXCEPT !.target = NameA]>>],
    [entities |-> <<FullEntity(NameA), BareEntity(NameB)>>,
     relationships |-> <<SampleRelationship>>],
    [entities |-> <<FullEntity(NameA), FullEntity(NameB)>>, relationships |-> <<>>],
    [entities |-> <<FullEntity(NameA), FullEntity(NameB)>>,
     relationships |-> <<SampleRelationship>>] }

BackendSpecs(entities, relationships) ==
  [enhancedDescription |-> <<"enhanced by the backend">>,
   entities |-> entities, relationships |-> relationships]

\* what processSpecs can resolve with: <<>> is a null body, <<specs>> a response
ProcessSpecsResponses ==
  { <<>>,
    <<[enhancedDescription |-> <<"enhanced by the backend">>]>> }
  \cup { <<BackendSpecs(m.entities, m.relationships)>> : m \in ManualModels }

editorVars == <<editor, crashed, modelVars, formVars, modalVars>>

InFlight == {f \in FlowIds : flows[f].pc # "idle"}
\* the slot of a new handleSubmit invocation
FreeFlow == CHOOSE f \in FlowIds : flows[f].pc = "idle" /\ \A g \in 1..(f - 1) : flows[g].pc # "idle"

\* the user can act: no Dialog is open, and no handler is in the middle of a task
UserReady == ~showDefinition /\ \A f \in FlowIds : flows[f].pc # "saving"

ErrorToast(message) == [kind |-> "error", message |-> message]
SuccessToast(message) == [kind |-> "success", message |-> message]
Called(api) == [api |-> api, outcome |-> "called"]
Settled(api, outcome) == [api |-> api, outcome |-> outcome]

\* =========================================================================
\* UMLGenerator (src/src/components/UMLGenerator.tsx): the controls
\* =========================================================================
\* onChange of the Textarea (disabled while loading)
SetDescription(d) ==
  /\ UserReady
  /\ inputMode = "unified"
  /\ ~loading
  /\ d # description
  /\ description' = d
  /\ lastOp' = NoOp
  /\ UNCHANGED <<editorVars, historyVars, loading, generator, inputMode, processingStep, processedSpecs,
                 umlSyntax, activeTab, lastDiagramId, failedAttempts, showDefinition,
                 apiConnectionError, flows, toasts, calls>>

\* handleExampleClick (the example buttons are rendered in unified mode, disabled
\* while loading)
ExampleClick(d) ==
  /\ UserReady
  /\ inputMode = "unified"
  /\ ~loading
  /\ d # description
  /\ description' = d
  /\ inputMode' = "unified"
  /\ lastOp' = NoOp
  /\ UNCHANGED <<editorVars, historyVars, loading, generator, processingStep, processedSpecs,
                 umlSyntax, activeTab, lastDiagramId, failedAttempts, showDefinition,
                 apiConnectionError, flows, toasts, calls>>

\* onValueChange of the ToggleGroup (not disabled while loading)
SetInputMode(value) ==
  /\ UserReady
  /\ value # inputMode
  /\ inputMode' = value
  /\ lastOp' = NoOp
  /\ UNCHANGED <<editorVars, historyVars, loading, generator, description, processingStep,
                 processedSpecs, umlSyntax, activeTab, lastDiagramId, failedAttempts,
                 showDefinition, apiConnectionError, flows, toasts, calls>>

\* onValueChange of the Tabs, rendered once processedSpecs is set
SetActiveTab(value) ==
  /\ UserReady
  /\ processedSpecs # <<>>
  /\ value # activeTab
  /\ activeTab' = value
  /\ lastOp' = NoOp
  /\ UNCHANGED <<editorVars, historyVars, loading, generator, description, inputMode, processingStep,
                 processedSpecs, umlSyntax, lastDiagramId, failedAttempts,
                 showDefinition, apiConnectionError, flows, toasts, calls>>

\* onClose of UMLDefinitionModal
CloseDefinition ==
  /\ showDefinition
  /\ \A f \in FlowIds : flows[f].pc # "saving"
  /\ showDefinition' = FALSE
  /\ lastOp' = NoOp
  /\ UNCHANGED <<editorVars, historyVars, loading, generator, description, inputMode, processingStep,
                 processedSpecs, umlSyntax, activeTab, lastDiagramId, failedAttempts,
                 apiConnectionError, flows, toasts, calls>>

\* the Generate button without its `loading ||` disjunct
SubmitEnabledWhileLoading ==
  IF inputMode = "unified" THEN Trim(description) # EmptyStr ELSE Len(manualEntities) # 0
\* the Generate button is enabled
SubmitEnabled ==
  /\ ~loading
  /\ IF inputMode = "unified" THEN Trim(description) # EmptyStr ELSE Len(manualEntities) # 0

\* handleSubmit can be invoked: the button is enabled and a slot is left for the invocation
CanSubmit == UserReady /\ SubmitEnabled /\ \E f \in FlowIds : flows[f].pc = "idle"

\* =========================================================================
\* UMLGenerator (src/src/components/UMLGenerator.tsx): handleSubmit.
\* One action per task of the handler: the click up to the first await, each
\* continuation of an await, and the tail after setProcessingStep("saving").
\* The check `!description.trim()` at its head repeats the button's condition.
\* =========================================================================
OpensDefinitionAtSecond(attempts) == attempts >= 2
\* `if (failedAttempts + 1 >= 3) setShowDefinition(true)`, of the new count
OpensDefinition(attempts) == attempts >= 3

Closure(pc, mode, specs) ==
  [pc |-> pc, mode |-> mode, description |-> description,
   failedAttempts |-> failedAttempts, apiConnectionError |-> apiConnectionError,
   specs |-> specs]

\* unified mode, a required word is missing
SubmitMissingWords ==
  /\ generator = "current"
  /\ CanSubmit
  /\ inputMode = "unified"
  /\ getMissingWords(description) # <<>>
  /\ failedAttempts < MaxFailedAttempts
  /\ toasts' = << [kind |-> "error",
                   message |-> "Your description must include the following words: ",
                   words |-> getMissingWords(description)] >>
  /\ calls' = <<>>
  /\ failedAttempts' = failedAttempts + 1
  /\ showDefinition' = IF OpensDefinition(failedAttempts + 1) THEN TRUE ELSE showDefinition
  /\ lastOp' = [op |-> "missingWords"]
  /\ UNCHANGED <<editorVars, historyVars, loading, generator, description, inputMode, processingStep,
                 processedSpecs, umlSyntax, activeTab, lastDiagramId,
                 apiConnectionError, flows>>

\* unified mode, up to `await processSpecs(...)`
SubmitUnified ==
  /\ generator = "current"
  /\ CanSubmit
  /\ inputMode = "unified"
  /\ getMissingWords(description) = <<>>
  /\ loading' = TRUE
  /\ processingStep' = "processing"
  /\ flows' = [flows EXCEPT ![FreeFlow] = Closure("processSpecs", "unified", <<>>)]
  /\ toasts' = <<>>
  /\ calls' = <<Called("processSpecs")>>
  /\ lastOp' = [op |-> "submit"]
  /\ UNCHANGED <<editorVars, historyVars, generator, description, inputMode, processedSpecs, umlSyntax,
                 activeTab, lastDiagramId, failedAttempts, showDefinition,
                 apiConnectionError>>

FinallyKeepsStep(f) ==
  /\ loading' = FALSE
  /\ processingStep' = processingStep
  /\ flows' = [flows EXCEPT ![f] = IdleFlow]
\* finally { setLoading(false); setProcessingStep("idle") }
Finally(f) ==
  /\ loading' = FALSE
  /\ processingStep' = "idle"
  /\ flows' = [flows EXCEPT ![f] = IdleFlow]

\* from the validity check to `await generateUML(...)`, or to the early return
ContinueWithSpecs(f, specs) ==
  IF ~checkUMLValidity(specs)
  THEN /\ flows[f].failedAttempts < MaxFailedAttempts
       /\ failedAttempts' = flows[f].failedAttempts + 1
       /\ showDefinition' = IF OpensDefinition(flows[f].failedAttempts + 1) THEN TRUE ELSE showDefinition
       /\ Finally(f)
       /\ lastOp' = [op |-> "invalidModel", specs |-> specs]
       /\ UNCHANGED <<processedSpecs, umlSyntax, activeTab>>
  ELSE /\ processedSpecs' = <<specs>>
       /\ processingStep' = "generating"
       /\ flows' = [flows EXCEPT ![f].pc = "generateUML", ![f].specs = <<specs>>]
       /\ lastOp' = [op |-> "generating"]
       /\ UNCHANGED <<loading, umlSyntax, activeTab, failedAttempts, showDefinition>>

InvalidModelToast ==
  ErrorToast("Your system definition must have at least two entities with attributes and methods, and at least one relationship.")

\* processSpecs resolved with r
ProcessSpecsResolved(f, r) ==
  /\ generator = "current"
  /\ flows[f].pc = "processSpecs"
  /\ IF r = <<>>
     THEN \* checkUMLValidity(null) throws; the outer catch and finally run
          /\ toasts' = Append(toasts, ErrorToast("Failed to generate UML diagram: "))
          /\ calls' = Append(calls, Settled("processSpecs", "resolved"))
          /\ Finally(f)
          /\ lastOp' = [op |-> "failed"]
          /\ UNCHANGED <<processedSpecs, umlSyntax, activeTab, failedAttempts,
                         showDefinition>>
     ELSE /\ ContinueWithSpecs(f, r[1])
          /\ toasts' = IF checkUMLValidity(r[1]) THEN toasts
                       ELSE Append(toasts, InvalidModelToast)
          /\ calls' = Append(calls, Settled("processSpecs", "resolved")) \o
                      (IF checkUMLValidity(r[1]) THEN <<Called("generateUML")>> ELSE <<>>)
  /\ UNCHANGED <<editorVars, historyVars, generator, description, inputMode, lastDiagramId,
                 apiConnectionError>>

\* processSpecs rejected: the inner catch substitutes createMockResponse(description)
ProcessSpecsRejected(f) ==
  /\ generator = "current"
  /\ flows[f].pc = "processSpecs"
  /\ apiConnectionError' = TRUE
  /\ LET specs == createMockResponse(flows[f].description)
         shown == Append(toasts,
                    ErrorToast("Unable to connect to the backend API. Using sample data instead."))
     IN  /\ ContinueWithSpecs(f, specs)
         /\ toasts' = IF checkUMLValidity(specs) THEN shown
                      ELSE Append(shown, InvalidModelToast)
         /\ calls' = Append(calls, Settled("processSpecs", "rejected")) \o
                     (IF checkUMLValidity(specs) THEN <<Called("generateUML")>> ELSE <<>>)
  /\ UNCHANGED <<editorVars, historyVars, generator, description, inputMode, lastDiagramId>>

\* separate mode: the message of the first of the three checks that fails, if any
SeparateValidationError ==
  IF Len(manualEntities) < 2 THEN <<"Please define at least two entities">>
  ELSE IF ~(\A i \in 1..Len(manualEntities) : HasAttributeAndMethod(manualEntities[i]))
    THEN <<"Each entity must have at least one attribute and one method">>
  ELSE IF Len(manualRelationships) < 1 THEN <<"Please define at least one relationship">>
  ELSE <<>>

\* separate mode, a check fails: toast, return, finally
SubmitSeparateInvalid ==
  /\ generator = "current"
  /\ CanSubmit
  /\ inputMode = "separate"
  /\ SeparateValidationError # <<>>
  /\ toasts' = <<ErrorToast(SeparateValidationError[1])>>
  /\ calls' = <<>>
  /\ loading' = FALSE
  /\ processingStep' = "idle"
  /\ lastOp' = [op |-> "validationFailed"]
  /\ UNCHANGED <<editorVars, historyVars, generator, description, inputMode, processedSpecs, umlSyntax,
                 activeTab, lastDiagramId, failedAttempts, showDefinition,
                 apiConnectionError, flows>>

\* separate mode, up to `await generateUML(...)`
SubmitSeparate ==
  /\ generator = "current"
  /\ CanSubmit
  /\ inputMode = "separate"
  /\ SeparateValidationError = <<>>
  /\ loading' = TRUE
  /\ processingStep' = "generating"
  /\ flows' = [flows EXCEPT ![FreeFlow] =
                 Closure("generateUML", "separate",
                         <<ManualSpecs(manualEntities, manualRelationships)>>)]
  /\ toasts' = <<>>
  /\ calls' = <<Called("generateUML")>>
  /\ lastOp' = [op |-> "submit"]
  /\ UNCHANGED <<editorVars, historyVars, generator, description, inputMode, processedSpecs, umlSyntax,
                 activeTab, lastDiagramId, failedAttempts, showDefinition,
                 apiConnectionError>>

\* generateUML resolved, up to setProcessingStep("saving")
GenerateUMLResolved(f) ==
  /\ generator = "current"
  /\ flows[f].pc = "generateUML"
  /\ umlSyntax' = <<BackendUmlSyntax(UMLRequest(flows[f].specs[1]))>>
  /\ processedSpecs' = IF flows[f].mode = "separate" THEN flows[f].specs ELSE processedSpecs
  /\ processingStep' = "saving"
  /\ flows' = [flows EXCEPT ![f].pc = "saving"]
  /\ calls' = Append(calls, Settled("generateUML", "resolved"))
  /\ lastOp' = [op |-> "saving"]
  /\ UNCHANGED <<editorVars, historyVars, loading, generator, description, inputMode, activeTab,
                 lastDiagramId, failedAttempts, showDefinition, apiConnectionError, toasts>>

\* generateUML rejected: the inner catch draws the diagram with generateMockUmlSyntax
GenerateUMLRejected(f) ==
  /\ generator = "current"
  /\ flows[f].pc = "generateUML"
  /\ umlSyntax' = <<generateMockUmlSyntax(flows[f].specs[1])>>
  /\ IF flows[f].mode = "separate"
     THEN /\ apiConnectionError' = TRUE
          /\ toasts' = Append(toasts,
               ErrorToast("API connection failed. Using generated diagram instead."))
          /\ processedSpecs' = flows[f].specs
     ELSE /\ IF ~flows[f].apiConnectionError
             THEN /\ toasts' = Append(toasts,
                       ErrorToast("API connection failed. Using generated diagram instead."))
                  /\ apiConnectionError' = TRUE
             ELSE UNCHANGED <<toasts, apiConnectionError>>
          /\ UNCHANGED processedSpecs
  /\ processingStep' = "saving"
  /\ flows' = [flows EXCEPT ![f].pc = "saving"]
  /\ calls' = Append(calls, Settled("generateUML", "rejected"))
  /\ lastOp' = [op |-> "saving"]
  /\ UNCHANGED <<editorVars, historyVars, loading, generator, description, inputMode, activeTab,
                 lastDiagramId, failedAttempts, showDefinition>>

SavedMessage == "UML diagram generated and saved to database"
OfflineMessage == "UML diagram generated (in offline mode)"

\* the rest of the task: the success toast, the tab, the counter, finally
FinishSubmit(f) ==
  /\ generator = "current"
  /\ flows[f].pc = "saving"
  /\ toasts' = Append(toasts, SuccessToast(IF flows[f].apiConnectionError
                                           THEN OfflineMessage ELSE SavedMessage))
  /\ activeTab' = "diagram"
  /\ failedAttempts' = IF flows[f].mode = "unified" THEN 0 ELSE failedAttempts
  /\ Finally(f)
  /\ lastOp' = [op |-> "succeeded"]
  /\ UNCHANGED <<editorVars, historyVars, generator, description, inputMode, processedSpecs, umlSyntax,
                 lastDiagramId, showDefinition, apiConnectionError, calls>>

\* =========================================================================
\* The submit flow of the current build
\* =========================================================================
InitSubmitEditor ==
  /\ crashed = FALSE
  /\ \E m \in ManualModels :
       /\ manualEntities = m.entities
       /\ manualRelationships = m.relationships
  /\ InitForm
  /\ InitModal

InitSubmit ==
  /\ generator = "current"
  /\ editor = "modal"
  /\ InitSubmitEditor
  /\ inputMode = "unified"
  /\ loading = FALSE
  /\ InitSubmitState
  /\ lastOp = NoOp

NextSubmit ==
  \/ \E d \in DescriptionInputs : SetDescription(d)
  \/ \E d \in ExampleInputs : ExampleClick(d)
  \/ \E value \in {"unified", "separate"} : SetInputMode(value)
  \/ \E value \in {"specifications", "diagram"} : SetActiveTab(value)
  \/ CloseDefinition
  \/ SubmitMissingWords
  \/ SubmitUnified
  \/ \E f \in FlowIds : \E r \in ProcessSpecsResponses : ProcessSpecsResolved(f, r)
  \/ \E f \in FlowIds : ProcessSpecsRejected(f)
  \/ SubmitSeparateInvalid
  \/ SubmitSeparate
  \/ \E f \in FlowIds : GenerateUMLResolved(f)
  \/ \E f \in FlowIds : GenerateUMLRejected(f)
  \/ \E f \in FlowIds : FinishSubmit(f)

SpecSubmit == InitSubmit /\ [][NextSubmit]_vars

\* =========================================================================
\* UMLGenerator, the earlier build (src/unnamed/part_008): handleSubmit.
\* No word gate, no validity check, no fallback: every failure goes to the one catch.
\* The checks at the head of each branch repeat the button's condition.
\* =========================================================================
FailedMessage == "Failed to generate UML diagram: "

\* unified mode, up to `await processSpecs(...)`
LegacySubmitUnified ==
  /\ generator = "legacy"
  /\ CanSubmit
  /\ inputMode = "unified"
  /\ loading' = TRUE
  /\ processingStep' = "processing"
  /\ flows' = [flows EXCEPT ![FreeFlow] = Closure("processSpecs", "unified", <<>>)]
  /\ toasts' = <<>>
  /\ calls' = <<Called("processSpecs")>>
  /\ lastOp' = [op |-> "submit"]
  /\ UNCHANGED <<editorVars, historyVars, generator, description, inputMode, processedSpecs, umlSyntax,
                 activeTab, lastDiagramId, failedAttempts, showDefinition,
                 apiConnectionError>>

\* processSpecs resolved with r: setProcessedSpecs(r), then `r.entities` is read
LegacyProcessSpecsResolved(f, r) ==
  /\ generator = "legacy"
  /\ flows[f].pc = "processSpecs"
  /\ processedSpecs' = r
  /\ IF r = <<>>
     THEN /\ toasts' = Append(toasts, ErrorToast(FailedMessage))
          /\ calls' = Append(calls, Settled("processSpecs", "resolved"))
          /\ Finally(f)
          /\ lastOp' = [op |-> "failed"]
     ELSE /\ processingStep' = "generating"
          /\ flows' = [flows EXCEPT ![f].pc = "generateUML", ![f].specs = r]
          /\ calls' = calls \o <<Settled("processSpecs", "resolved"), Called("generateUML")>>
          /\ lastOp' = [op |-> "generating"]
          /\ UNCHANGED <<loading, toasts>>
  /\ UNCHANGED <<editorVars, historyVars, generator, description, inputMode, umlSyntax, activeTab,
                 lastDiagramId, failedAttempts, showDefinition, apiConnectionError>>

\* processSpecs rejected: catch, finally
LegacyProcessSpecsRejected(f) ==
  /\ generator = "legacy"
  /\ flows[f].pc = "processSpecs"
  /\ toasts' = Append(toasts, ErrorToast(FailedMessage))
  /\ calls' = Append(calls, Settled("processSpecs", "rejected"))
  /\ Finally(f)
  /\ lastOp' = [op |-> "failed"]
  /\ UNCHANGED <<editorVars, historyVars, generator, description, inputMode, processedSpecs, umlSyntax,
                 activeTab, lastDiagramId, failedAttempts, showDefinition,
                 apiConnectionError>>

\* separate mode, up to `await generateUML(...)`
LegacySubmitSeparate ==
  /\ generator = "legacy"
  /\ CanSubmit
  /\ inputMode = "separate"
  /\ loading' = TRUE
  /\ processingStep' = "generating"
  /\ flows' = [flows EXCEPT ![FreeFlow] =
                 Closure("generateUML", "separate",
                         <<ManualSpecs(manualEntities, manualRelationships)>>)]
  /\ toasts' = <<>>
  /\ calls' = <<Called("generateUML")>>
  /\ lastOp' = [op |-> "submit"]
  /\ UNCHANGED <<editorVars, historyVars, generator, description, inputMode, processedSpecs, umlSyntax,
                 activeTab, lastDiagramId, failedAttempts, showDefinition,
                 apiConnectionError>>

\* generateUML resolved, up to setProcessingStep('saving')
LegacyGenerateUMLResolved(f) ==
  /\ generator = "legacy"
  /\ flows[f].pc = "generateUML"
  /\ umlSyntax' = <<BackendUmlSyntax(UMLRequest(flows[f].specs[1]))>>
  /\ processedSpecs' = IF flows[f].mode = "separate" THEN flows[f].specs ELSE processedSpecs
  /\ processingStep' = "saving"
  /\ flows' = [flows EXCEPT ![f].pc = "saving"]
  /\ calls' = Append(calls, Settled("generateUML", "resolved"))
  /\ lastOp' = [op |-> "saving"]
  /\ UNCHANGED <<editorVars, historyVars, loading, generator, description, inputMode, activeTab,
                 lastDiagramId, failedAttempts, showDefinition, apiConnectionError, toasts>>

\* generateUML rejected: catch, finally
LegacyGenerateUMLRejected(f) ==
  /\ generator = "legacy"
  /\ flows[f].pc = "generateUML"
  /\ toasts' = Append(toasts, ErrorToast(FailedMessage))
  /\ calls' = Append(calls, Settled("generateUML", "rejected"))
  /\ Finally(f)
  /\ lastOp' = [op |-> "failed"]
  /\ UNCHANGED <<editorVars, historyVars, generator, description, inputMode, processedSpecs, umlSyntax,
                 activeTab, lastDiagramId, failedAttempts, showDefinition,
                 apiConnectionError>>

\* the rest of the task: the success toast, the tab, finally
LegacyFinishSubmit(f) ==
  /\ generator = "legacy"
  /\ flows[f].pc = "saving"
  /\ toasts' = Append(toasts, SuccessToast(SavedMessage))
  /\ activeTab' = "diagram"
  /\ Finally(f)
  /\ lastOp' = [op |-> "succeeded"]
  /\ UNCHANGED <<editorVars, historyVars, generator, description, inputMode, processedSpecs, umlSyntax,
                 lastDiagramId, failedAttempts, showDefinition, apiConnectionError, calls>>

\* =========================================================================
\* The submit flow of both builds
\* =========================================================================
InitSubmitBuilds ==
  /\ generator \in {"current", "legacy"}
  /\ editor = IF generator = "current" THEN "modal" ELSE "form"
  /\ InitSubmitEditor
  /\ inputMode = "unified"
  /\ loading = FALSE
  /\ InitSubmitState
  /\ lastOp = NoOp

NextSubmitBuilds ==
  \/ NextSubmit
  \/ LegacySubmitUnified
  \/ \E f \in FlowIds : \E r \in ProcessSpecsResponses : LegacyProcessSpecsResolved(f, r)
  \/ \E f \in FlowIds : LegacyProcessSpecsRejected(f)
  \/ LegacySubmitSeparate
  \/ \E f \in FlowIds : LegacyGenerateUMLResolved(f)
  \/ \E f \in FlowIds : LegacyGenerateUMLRejected(f)
  \/ \E f \in FlowIds : LegacyFinishSubmit(f)

SpecSubmitBuilds == InitSubmitBuilds /\ [][NextSubmitBuilds]_vars

\* =========================================================================
\* The mock history store (src/src/services/mockData.ts)
\* =========================================================================
Digits == <<"0", "1", "2", "3", "4", "5", "6", "7", "8", "9">>

\* Number.prototype.toString of a non-negative integer
RECURSIVE NumberToString(_)
NumberToString(n) ==
  IF n < 10 THEN <<Digits[n + 1]>> ELSE NumberToString(n \div 10) \o <<Digits[(n % 10) + 1]>>

\* JSON.parse of the stored item, [] when there is none
getHistoryFromStorage == storage

TitleInputs == {EmptyStr, <<"S", "h", "o", "p">>}
SyntaxInputs == {"classDiagram A", "classDiagram B"}

\* the clock advances by a millisecond
Tick ==
  /\ now < MaxNow
  /\ now' = now + 1
  /\ lastOp' = NoOp
  /\ UNCHANGED <<editorVars, loading, submitVars, storage, componentVars>>

\* mockSaveUMLDiagram(request); stored says whether localStorage.setItem succeeded
\* (saveHistoryToStorage swallows its failure)
mockSaveUMLDiagram(title, syntax, stored) ==
  LET history == getHistoryFromStorage
      newDiagram ==
        [id |-> NumberToString(now),
         title |-> IF Truthy(title) THEN title
                   ELSE <<"U", "M", "L", " ", "D", "i", "a", "g", "r", "a", "m", " ">> \o NumberToString(Len(history) + 1),
         umlSyntax |-> syntax,
         createdAt |-> now]
  IN  /\ Len(history) < MaxHistory
      /\ storage' = IF stored THEN Append(history, newDiagram) ELSE storage
      /\ lastOp' = [op |-> "saveDiagram", id |-> newDiagram.id, success |-> TRUE]
      /\ UNCHANGED <<editorVars, loading, submitVars, now, componentVars>>

InitHistory ==
  /\ editor = "modal"
  /\ generator = "current"
  /\ InitSubmitEditor
  /\ manualEntities = <<>>
  /\ inputMode = "unified"
  /\ loading = FALSE
  /\ InitSubmitState
  /\ lastOp = NoOp

NextHistory ==
  \/ Tick
  \/ \E title \in TitleInputs : \E syntax \in SyntaxInputs : \E stored \in BOOLEAN :
       mockSaveUMLDiagram(title, syntax, stored)

SpecHistory == InitHistory /\ [][NextHistory]_vars

\* =========================================================================
\* Claims about the submit flow
\* =========================================================================
HasCall(api, outcome) == \E i \in 1..Len(calls) : calls[i] = Settled(api, outcome)
HasToast(t) == \E i \in 1..Len(toasts) : toasts[i] = t

\* the three conditions of a valid model, written out
ValidModel(m) ==
  /\ Len(m.entities) >= 2
  /\ \A i \in 1..Len(m.entities) :
       Len(m.entities[i].attributes) >= 1 /\ Len(m.entities[i].methods) >= 1
  /\ Len(m.relationships) >= 1

\* a handleSubmit invocation that reached the backend has just run its finally block
SubmitEnded == lastOp.op \in {"succeeded", "invalidModel", "failed"}

UnableToast == ErrorToast("Unable to connect to the backend API. Using sample data instead.")

\* C4 as stated: every submit that passed input validation ends with processedSpecs and
\* umlSyntax set and activeTab = 'diagram', whatever the two backend calls did.
C4_EverySubmitEndsWithDiagram ==
  SubmitEnded => processedSpecs # <<>> /\ umlSyntax # <<>> /\ activeTab = "diagram"

\* C4 amended: when a submit ends, (a) a rejected processSpecs left the error toast and
\* createMockResponse(description) as processedSpecs, (b) a rejected generateUML left the
\* diagram generateMockUmlSyntax draws of that same model, (c) a submit with a rejected
\* call ends as a success, never in the catch-all failure toast, (d) a submit that ends as
\* a success has processedSpecs and umlSyntax set, of one model, and activeTab = 'diagram',
\* and (e) the only submits that end otherwise are those whose processSpecs call resolved
\* with null or with a model that is not valid.
C4_FallBackToMockData ==
  SubmitEnded =>
    /\ HasCall("processSpecs", "rejected") =>
         HasToast(UnableToast) /\ processedSpecs = <<createMockResponse(description)>>
    /\ HasCall("generateUML", "rejected") =>
         processedSpecs # <<>> /\ umlSyntax = <<generateMockUmlSyntax(processedSpecs[1])>>
    /\ HasCall("processSpecs", "rejected") \/ HasCall("generateUML", "rejected") =>
         lastOp.op = "succeeded" /\ ~HasToast(ErrorToast("Failed to generate UML diagram: "))
    /\ lastOp.op = "succeeded" =>
         /\ processedSpecs # <<>>
         /\ umlSyntax # <<>>
         /\ umlSyntax[1].entities = processedSpecs[1].entities
         /\ umlSyntax[1].relationships = processedSpecs[1].relationships
         /\ activeTab = "diagram"
    /\ lastOp.op = "invalidModel" =>
         HasCall("processSpecs", "resolved") /\ ~ValidModel(UMLRequest(lastOp.specs))
    /\ lastOp.op = "failed" => HasCall("processSpecs", "resolved")

\* both backend calls were rejected and the submit ended as a success
C4_Witness ==
  /\ lastOp.op = "succeeded"
  /\ HasCall("processSpecs", "rejected")
  /\ HasCall("generateUML", "rejected")

\* C5: whenever a handleSubmit task sets umlSyntax, the model the diagram draws has at
\* least two entities, each with an attribute and a method, and a relationship; a submit
\* stopped for its model shows an error toast and changes neither umlSyntax nor
\* processedSpecs; so every diagram on display is of a valid model.
C5_OnlyValidModelsRendered ==
  [][ /\ lastOp'.op = "saving" => umlSyntax' # <<>> /\ ValidModel(umlSyntax'[1])
      /\ lastOp'.op \in {"invalidModel", "validationFailed"} =>
           /\ umlSyntax' = umlSyntax
           /\ processedSpecs' = processedSpecs
           /\ toasts' # <<>>
           /\ toasts'[Len(toasts')].kind = "error"
      /\ lastOp'.op = "validationFailed" =>
           ~ValidModel([entities |-> manualEntities, relationships |-> manualRelationships])
      /\ umlSyntax' # <<>> => ValidModel(umlSyntax'[1]) ]_vars

\* a submit was stopped for its model while the diagram of an earlier submit is shown
C5_Witness ==
  /\ lastOp.op = "invalidModel"
  /\ umlSyntax # <<>>
  /\ processedSpecs # <<>>

\* the description lacks one of the four word groups, compared in lower case
LacksWordGroup(desc) ==
  LET lower == ToLowerCase(desc)
  IN  \/ ~Includes(lower, <<"a", "t", "t", "r", "i", "b", "u", "t", "e">>)
      \/ ~Includes(lower, <<"m", "e", "t", "h", "o", "d">>)
      \/ ~Includes(lower, <<"r", "e", "l", "a", "t", "i", "o", "n", "s", "h", "i", "p">>)
      \/ /\ ~Includes(lower, <<"e", "n", "t", "i", "t", "y">>)
         /\ ~Includes(lower, <<"c", "l", "a", "s", "s">>)

\* C6: a unified-mode submit of a description that lacks a word group starts no backend
\* call, leaves loading, processingStep, processedSpecs and umlSyntax as they were and
\* adds exactly one to failedAttempts; a description with all four groups passes the gate.
C6_RequiredWordsGate ==
  [][ lastOp'.op \in {"missingWords", "submit"} /\ inputMode = "unified" =>
        IF LacksWordGroup(description)
        THEN /\ lastOp'.op = "missingWords"
             /\ calls' = <<>>
             /\ flows' = flows
             /\ loading' = loading
             /\ processingStep' = processingStep
             /\ processedSpecs' = processedSpecs
             /\ umlSyntax' = umlSyntax
             /\ failedAttempts' = failedAttempts + 1
        ELSE /\ lastOp'.op = "submit"
             /\ calls' = <<Called("processSpecs")>>
             /\ failedAttempts' = failedAttempts ]_vars

\* the gate stopped a description that has 'entities' but neither 'entity' nor 'class',
\* for the third time in a row, after an earlier submit had passed it
C6_Witness ==
  /\ lastOp.op = "missingWords"
  /\ description = DescPlural
  /\ failedAttempts = 3
  /\ processedSpecs # <<>>

\* C7: processingStep changes only idle -> processing (unified), idle -> generating
\* (separate), processing -> generating, generating -> saving, and non-idle -> idle;
\* it reaches saving only in the task that set umlSyntax to the diagram of the model
\* that submit sent to generateUML.
C7_LinearWizard ==
  [][ processingStep' # processingStep =>
        \/ processingStep = "idle" /\ processingStep' = "processing" /\ inputMode = "unified"
        \/ processingStep = "idle" /\ processingStep' = "generating" /\ inputMode = "separate"
        \/ processingStep = "processing" /\ processingStep' = "generating"
        \/ /\ processingStep = "generating" /\ processingStep' = "saving"
           /\ umlSyntax' # <<>>
           /\ \E f \in FlowIds :
                /\ flows[f].pc = "generateUML"
                /\ flows'[f].pc = "saving"
                /\ umlSyntax'[1].entities = UMLRequest(flows[f].specs[1]).entities
                /\ umlSyntax'[1].relationships = UMLRequest(flows[f].specs[1]).relationships
        \/ processingStep # "idle" /\ processingStep' = "idle" ]_vars

\* a unified submit of the earlier build went through processing and generating to saving
C7_Witness ==
  /\ generator = "legacy"
  /\ processingStep = "saving"
  /\ HasCall("processSpecs", "resolved")
  /\ HasCall("generateUML", "resolved")

\* C8: at most one handleSubmit invocation is between its setLoading(true) and its finally
\* block, and loading is true exactly while one is; so a click starts backend calls only
\* when no invocation is in flight.
C8_SingleRequestInFlight ==
  /\ Cardinality(InFlight) <= 1
  /\ loading <=> InFlight # {}
  /\ processingStep # "idle" <=> InFlight # {}

\* a unified submit is in flight and the user has switched to separate mode, where the
\* editor holds entities: only `loading` keeps the Generate button disabled
C8_Witness ==
  /\ \E f \in FlowIds : flows[f].pc = "generateUML" /\ flows[f].mode = "unified"
  /\ inputMode = "separate"
  /\ SubmitEnabledWhileLoading
  /\ ~SubmitEnabled

\* C10: when a submit has ended with the toast "UML diagram generated and saved to
\* database", that submit called the backend save operation and lastDiagramId holds the
\* id of the saved diagram.
C10_SavedMessageMeansSaved ==
  lastOp.op = "succeeded" /\ HasToast(SuccessToast(SavedMessage)) =>
    /\ \E i \in 1..Len(calls) : calls[i].api \in {"saveDiagram", "saveUMLDiagram"}
    /\ lastDiagramId # NULL

\* =========================================================================
\* Claims about the history store
\* =========================================================================
\* C9: the ids of the diagrams in the stored history are pairwise distinct.
C9_DistinctIds ==
  \A i, j \in 1..Len(storage) : i # j => storage[i].id # storage[j].id

\* =========================================================================
\* The History page (src/src/pages/History.tsx) and the way back to the generator
\* =========================================================================
\* history.sort((a, b) => time(b.createdAt) - time(a.createdAt)): a stable sort,
\* newest first; d goes after the diagrams that are not older than it
RECURSIVE InsertByCreatedAt(_, _)
InsertByCreatedAt(sorted, d) ==
  IF sorted = <<>> THEN <<d>>
  ELSE IF Head(sorted).createdAt >= d.createdAt
       THEN <<Head(sorted)>> \o InsertByCreatedAt(Tail(sorted), d)
       ELSE <<d>> \o sorted

RECURSIVE SortByCreatedAtDesc(_)
SortByCreatedAtDesc(history) ==
  IF history = <<>> THEN <<>>
  ELSE InsertByCreatedAt(SortByCreatedAtDesc(SubSeq(history, 1, Len(history) - 1)),
                         history[Len(history)])

\* mockGetUMLHistory()
mockGetUMLHistory == SortByCreatedAtDesc(getHistoryFromStorage)

\* UMLGenerator mounts: every useState takes its initial value. Nothing in the
\* component (no initialiser, no effect) reads sessionStorage.
MountUMLGenerator ==
  /\ description' = EmptyStr
  /\ loading' = FALSE
  /\ processingStep' = "idle"
  /\ processedSpecs' = <<>>
  /\ umlSyntax' = <<>>
  /\ activeTab' = "specifications"
  /\ inputMode' = "unified"
  /\ lastDiagramId' = NULL
  /\ failedAttempts' = 0
  /\ showDefinition' = FALSE
  /\ apiConnectionError' = FALSE
  /\ manualEntities' = <<>>
  /\ manualRelationships' = <<>>
  /\ flows' = [f \in FlowIds |-> IdleFlow]
  /\ UNCHANGED <<editor, crashed, formVars, modalVars, generator, toasts, calls>>

\* the router shows /history: History mounts, its effect calls fetchDiagrams, which
\* runs up to `await getUMLHistory()`
OpenHistory ==
  /\ route = "/"
  /\ ~loading
  /\ route' = "/history"
  /\ diagrams' = <<>>
  /\ historyLoading' = TRUE
  /\ fetching' = TRUE
  /\ lastOp' = NoOp
  /\ UNCHANGED <<editorVars, loading, submitVars, storage, now, selectedDiagram, pageFrame>>

\* fetchDiagrams after the promise resolved
FetchDiagramsResolved ==
  /\ route = "/history"
  /\ fetching
  /\ diagrams' = mockGetUMLHistory
  /\ historyLoading' = FALSE
  /\ fetching' = FALSE
  /\ lastOp' = NoOp
  /\ UNCHANGED <<editorVars, loading, submitVars, storage, now, route, selectedDiagram, pageFrame>>

\* fetchDiagrams after the promise rejected (the backend of part_002 is unreachable)
FetchDiagramsRejected ==
  /\ route = "/history"
  /\ fetching
  /\ toasts' = <<ErrorToast("Failed to load UML history")>>
  /\ historyLoading' = FALSE
  /\ fetching' = FALSE
  /\ lastOp' = NoOp
  /\ UNCHANGED <<editorVars, loading, generator, description, inputMode, processingStep,
                 processedSpecs, umlSyntax, activeTab, lastDiagramId, failedAttempts,
                 showDefinition, apiConnectionError, flows, calls, storage, now, route,
                 selectedDiagram, diagrams, pageFrame>>

\* handleViewDiagram(diagram) of the i-th card: the item is written, the router goes
\* to '/', History unmounts and Index mounts UMLGenerator
handleViewDiagram(i) ==
  /\ route = "/history"
  /\ ~historyLoading
  /\ i \in 1..Len(diagrams)
  /\ selectedDiagram' = <<diagrams[i]>>
  /\ route' = "/"
  /\ fetching' = FALSE
  /\ MountUMLGenerator
  /\ lastOp' = [op |-> "viewDiagram", diagram |-> diagrams[i]]
  /\ UNCHANGED <<storage, now, diagrams, historyLoading, pageFrame>>

\* 'Create Your First Diagram' of the empty list: navigate('/')
CreateFirstDiagram ==
  /\ route = "/history"
  /\ ~historyLoading
  /\ Len(diagrams) = 0
  /\ route' = "/"
  /\ fetching' = FALSE
  /\ MountUMLGenerator
  /\ lastOp' = NoOp
  /\ UNCHANGED <<storage, now, selectedDiagram, diagrams, historyLoading, pageFrame>>

InitRestore == InitHistory

NextRestore ==
  \/ NextHistory
  \/ OpenHistory
  \/ FetchDiagramsResolved
  \/ FetchDiagramsRejected
  \/ \E i \in 1..MaxHistory : handleViewDiagram(i)
  \/ CreateFirstDiagram

SpecRestore == InitRestore /\ [][NextRestore]_vars

\* C11 as stated: right after handleViewDiagram(diagram) the diagram is stored under
\* 'selectedDiagram', the router shows '/', and the generator mounted there shows the
\* diagram: its umlSyntax is the diagram's and the diagram tab is the active one.
C11_ViewRestoresDiagram ==
  lastOp.op = "viewDiagram" =>
    /\ selectedDiagram = <<lastOp.diagram>>
    /\ route = "/"
    /\ umlSyntax = <<lastOp.diagram.umlSyntax>>

\* =========================================================================
\* MermaidRenderer (src/src/components/MermaidRenderer.tsx)
\* =========================================================================
MaxRenders == 3

ChartA == <<"c", "l", "a", "s", "s", "D", "i", "a", "g", "r", "a", "m", " ", "A">>
ChartB == <<"c", "l", "a", "s", "s", "D", "i", "a", "g", "r", "a", "m", " ", "B">>
\* a chart mermaid cannot parse
ChartBad == <<"c", "l", "a", "s", "s", "D", "i", "a", "g", "r", "a", "m", " ", "{">>
ChartInputs == {EmptyStr, ChartA, ChartB, ChartBad}

\* cleanMermaidSyntax(mermaidCode): each of its four patterns matches only text
\* with a comma in it, so a chart without commas comes back as it is; the charts
\* of ChartInputs have none
cleanMermaidSyntax(mermaidCode) ==
  IF \E i \in 1..Len(mermaidCode) : mermaidCode[i] = "," THEN <<"cleaned">> \o mermaidCode
  ELSE mermaidCode

\* mermaid.render(id, text): resolves with the SVG of the text, or rejects
RenderSucceeds(text) == text # ChartBad
Svg(text) == <<"<svg>">> \o text
RenderError(text) == <<[message |-> "Failed to render diagram: ", chart |-> text]>>

\* the div under mermaidRef is in the document iff the last commit took the normal
\* view, that is iff `error` was null
RefAttached == error = <<>>

RECURSIVE RemoveAt(_, _)
RemoveAt(a, i) ==
  IF i = 1 THEN Tail(a) ELSE <<Head(a)>> \o RemoveAt(Tail(a), i - 1)

\* the effect of [chart], run after the commit that showed prop value c
ChartEffect(c) ==
  /\ error' = <<>>
  /\ IF Truthy(c) /\ RefAttached
     THEN /\ innerHTML' = EmptyStr
          /\ renders' = Append(renders, cleanMermaidSyntax(c))
          /\ rendering' = TRUE
     ELSE /\ innerHTML' = IF RefAttached THEN innerHTML ELSE EmptyStr
          /\ renders' = renders
          /\ rendering' = FALSE

\* the parent passes another chart
SetChart(c) ==
  /\ c # chart
  /\ Len(renders) < MaxRenders
  /\ chart' = c
  /\ ChartEffect(c)
  /\ lastOp' = NoOp
  /\ UNCHANGED <<editorVars, loading, submitVars, storage, now, rendererFrame>>

\* renderChart after `await mermaid.render(...)` of the i-th pending call resolved
RenderResolved(i) ==
  /\ i \in 1..Len(renders)
  /\ RenderSucceeds(renders[i])
  /\ innerHTML' = IF RefAttached THEN Svg(renders[i]) ELSE innerHTML
  /\ rendering' = FALSE
  /\ renders' = RemoveAt(renders, i)
  /\ lastOp' = NoOp
  /\ UNCHANGED <<editorVars, loading, submitVars, storage, now, rendererFrame, chart, error>>

\* renderChart after the i-th pending call rejected: catch, then finally; the
\* error view replaces the div
RenderRejected(i) ==
  /\ i \in 1..Len(renders)
  /\ ~RenderSucceeds(renders[i])
  /\ error' = RenderError(renders[i])
  /\ innerHTML' = EmptyStr
  /\ rendering' = FALSE
  /\ renders' = RemoveAt(renders, i)
  /\ lastOp' = NoOp
  /\ UNCHANGED <<editorVars, loading, submitVars, storage, now, rendererFrame, chart>>

\* MermaidRenderer after its mount with some chart: the first effect has run
InitRenderer ==
  /\ editor = "modal"
  /\ generator = "current"
  /\ InitSubmitEditor
  /\ inputMode = "unified"
  /\ loading = FALSE
  /\ InitGeneratorState
  /\ InitPureIdle
  /\ InitDefinitionModal
  /\ InitScriptIdle
  /\ lastOp = NoOp
  /\ chart \in ChartInputs
  /\ error = <<>>
  /\ innerHTML = EmptyStr
  /\ rendering = Truthy(chart)
  /\ renders = IF Truthy(chart) THEN <<cleanMermaidSyntax(chart)>> ELSE <<>>

NextRenderer ==
  \/ \E c \in ChartInputs : SetChart(c)
  \/ \E i \in 1..MaxRenders : RenderResolved(i)
  \/ \E i \in 1..MaxRenders : RenderRejected(i)

SpecRenderer == InitRenderer /\ [][NextRenderer]_vars

\* C12 as stated: when no render is pending any more, rendering is false, a chart
\* that renders is displayed as its own SVG with no error shown, and a chart that
\* does not render shows its own error.
C12_DisplayFollowsChart ==
  renders = <<>> =>
    /\ ~rendering
    /\ (Truthy(chart) /\ RenderSucceeds(cleanMermaidSyntax(chart))) =>
         (innerHTML = Svg(cleanMermaidSyntax(chart)) /\ error = <<>>)
    /\ (Truthy(chart) /\ ~RenderSucceeds(cleanMermaidSyntax(chart))) =>
         error = RenderError(cleanMermaidSyntax(chart))

\* =========================================================================
\* The two diagram generators as text: generateMockUmlSyntax (UMLGenerator.tsx) and
\* mockGenerateUMLResponse (mockData.ts). A text is the sequence of its lines, each
\* line without its '\n'.
\* =========================================================================
\* s.replace(/,/g, '')
RECURSIVE RemoveCommas(_)
RemoveCommas(s) ==
  IF s = <<>> THEN <<>>
  ELSE (IF Head(s) = "," THEN <<>> ELSE <<Head(s)>>) \o RemoveCommas(Tail(s))

\* a.join(', ')
RECURSIVE JoinComma(_)
JoinComma(a) ==
  IF a = <<>> THEN <<>>
  ELSE IF Len(a) = 1 THEN a[1]
  ELSE a[1] \o <<",", " ">> \o JoinComma(Tail(a))

RECURSIVE Flatten(_)
Flatten(blocks) == IF blocks = <<>> THEN <<>> ELSE Head(blocks) \o Flatten(Tail(blocks))

\* visibility === 'private' ? '-' : visibility === 'protected' ? '#' : '+'
visibility(v) == IF v = "private" THEN "-" ELSE IF v = "protected" THEN "#" ELSE "+"

\* the switch of generateMockUmlSyntax
arrow(type) ==
  CASE type = "inheritance" -> <<"<", "|", "-", "-">>
    [] type = "composition" -> <<"*", "-", "-">>
    [] type = "aggregation" -> <<"o", "-", "-">>
    [] type = "dependency" -> <<"<", ".", ".">>
    [] OTHER -> <<"-", "-", ">">>

\* the switch with the symbols of composition and aggregation exchanged
relationshipSymbolExchanged(type) ==
  CASE type = "inheritance" -> <<"-", "-", "|", ">">>
    [] type = "composition" -> <<"-", "-", "o">>
    [] type = "aggregation" -> <<"-", "-", "*">>
    [] type = "dependency" -> <<".", ".", ">">>
    [] OTHER -> <<"-", "-", ">">>

\* the switch of mockGenerateUMLResponse
relationshipSymbol(type) ==
  CASE type = "inheritance" -> <<"-", "-", "|", ">">>
    [] type = "composition" -> <<"-", "-", "*">>
    [] type = "aggregation" -> <<"-", "-", "o">>
    [] type = "dependency" -> <<".", ".", ">">>
    [] OTHER -> <<"-", "-", ">">>

\* ---- mockGenerateUMLResponse(request)
MockParams(method) ==
  JoinComma([i \in 1..Len(method.parameters) |->
               method.parameters[i].name \o <<":", " ">> \o method.parameters[i].type])

MockAttributeLine(attr) ==
  <<" ", " ", " ", " ">> \o <<visibility(attr.visibility)>> \o attr.name \o <<" ", ":", " ">> \o attr.type

MockMethodLine(method) ==
  <<" ", " ", " ", " ">> \o <<visibility(method.visibility)>> \o method.name
    \o <<"(">> \o MockParams(method) \o <<")", " ">> \o method.returnType

MockClassBlock(entity) ==
  <<<<" ", " ", "c", "l", "a", "s", "s", " ">> \o entity.name \o <<" ", "{">>>>
    \o [i \in 1..Len(entity.attributes) |-> MockAttributeLine(entity.attributes[i])]
    \o [i \in 1..Len(entity.methods) |-> MockMethodLine(entity.methods[i])]
    \o <<<<" ", " ", "}">>>>

MockRelationshipLine(rel) ==
  <<" ", " ">> \o rel.source \o <<" ">> \o relationshipSymbol(rel.type) \o <<" ">> \o rel.target
    \o (IF Truthy(rel.label) THEN <<" ", ":", " ">> \o rel.label ELSE <<>>)

mockGenerateUMLResponse(req) ==
  [umlSyntax |->
     <<<<"c", "l", "a", "s", "s", "D", "i", "a", "g", "r", "a", "m">>>>
       \o Flatten([i \in 1..Len(req.entities) |-> MockClassBlock(req.entities[i])])
       \o [i \in 1..Len(req.relationships) |-> MockRelationshipLine(req.relationships[i])]]

\* ---- generateMockUmlSyntax(specs), the text it returns
LocalParams(method) ==
  JoinComma([i \in 1..Len(method.parameters) |->
               method.parameters[i].name \o <<":", " ">> \o RemoveCommas(method.parameters[i].type)])

LocalAttributeLine(attr) ==
  <<" ", " ">> \o <<visibility(attr.visibility)>> \o attr.name \o <<" ", ":", " ">> \o attr.type

LocalMethodLine(method) ==
  <<" ", " ">> \o <<visibility(method.visibility)>> \o RemoveCommas(method.name)
    \o <<"(">> \o LocalParams(method) \o <<")", " ">> \o RemoveCommas(method.returnType)

LocalClassBlock(entity) ==
  <<<<"c", "l", "a", "s", "s", " ">> \o RemoveCommas(entity.name) \o <<" ", "{">>>>
    \o [i \in 1..Len(entity.attributes) |-> LocalAttributeLine(entity.attributes[i])]
    \o [i \in 1..Len(entity.methods) |-> LocalMethodLine(entity.methods[i])]
    \o <<<<"}">>>>

LocalRelationshipLine(rel) ==
  RemoveCommas(rel.source) \o <<" ">> \o arrow(rel.type) \o <<" ">> \o RemoveCommas(rel.target)
    \o (IF Truthy(rel.label) THEN <<" ", ":", " ">> \o rel.label ELSE <<>>)

umlCode(specs) ==
  <<<<"c", "l", "a", "s", "s", "D", "i", "a", "g", "r", "a", "m">>>>
    \o Flatten([i \in 1..Len(specs.entities) |-> LocalClassBlock(specs.entities[i])])
    \o [i \in 1..Len(specs.relationships) |-> LocalRelationshipLine(specs.relationships[i])]

\* ---- requests the generators are applied to
NameC == <<"C", ",">>

ProtectedEntity ==
  [name |-> NameB,
   attributes |-> << [name |-> <<"x">>, type |-> <<"i", "n", "t">>, visibility |-> "protected"],
                     [name |-> <<"y">>, type |-> <<"s", "t", "r", "i", "n", "g">>, visibility |-> "public"] >>,
   methods |-> << [name |-> <<"f">>, returnType |-> <<"v", "o", "i", "d">>, visibility |-> "private",
                   parameters |-> << [name |-> <<"p">>, type |-> <<"i", "n", "t">>],
                                     [name |-> <<"q">>, type |-> NameB] >>],
                  [name |-> <<"g">>, returnType |-> NameB, visibility |-> "protected",
                   parameters |-> << [name |-> <<"p">>, type |-> <<"i", "n", "t">>] >>] >>]

EmptyEntity == [name |-> NameC, attributes |-> <<>>, methods |-> <<>>]

EntityPool == <<FullEntity(NameA), ProtectedEntity, EmptyEntity>>

RelationshipPool ==
  << [source |-> NameA, target |-> NameB, type |-> "inheritance", label |-> UNDEFINED],
     [source |-> NameB, target |-> NameA, type |-> "composition", label |-> EmptyStr],
     [source |-> NameA, target |-> NameC, type |-> "aggregation", label |-> <<"h", "a", "s">>],
     [source |-> NameC, target |-> NameA, type |-> "dependency", label |-> UNDEFINED],
     [source |-> NameA, target |-> NameB, type |-> "association", label |-> <<"u", "s", "e", "s">>],
     [source |-> NameB, target |-> NameB, type |-> "association", label |-> EmptyStr],
     [source |-> NameB, target |-> NameA, type |-> "inheritance", label |-> <<"i", "s", " ", "a">>] >>

\* the elements of a whose positions are in S, in the order of a
RECURSIVE Pick(_, _, _)
Pick(a, S, i) ==
  IF i > Len(a) THEN <<>>
  ELSE (IF i \in S THEN <<a[i]>> ELSE <<>>) \o Pick(a, S, i + 1)

UMLRequests ==
  { [entities |-> Pick(EntityPool, S, 1), relationships |-> Pick(RelationshipPool, T, 1)] :
      S \in SUBSET (1..Len(EntityPool)), T \in SUBSET (1..Len(RelationshipPool)) }

NotApplied == [fn |-> "none"]

\* mockGenerateUMLResponse(argument)
ApplyMockGenerateUMLResponse ==
  /\ returned.fn # "mockGenerateUMLResponse"
  /\ returned' = [fn |-> "mockGenerateUMLResponse", value |-> mockGenerateUMLResponse(argument)]
  /\ lastOp' = NoOp
  /\ UNCHANGED <<editorVars, loading, submitVars, storage, now, pureFrame, argument>>

\* generateMockUmlSyntax(argument)
ApplyGenerateMockUmlSyntax ==
  /\ returned.fn # "generateMockUmlSyntax"
  /\ returned' = [fn |-> "generateMockUmlSyntax", value |-> umlCode(argument)]
  /\ lastOp' = NoOp
  /\ UNCHANGED <<editorVars, loading, submitVars, storage, now, pureFrame, argument>>

InitPure ==
  /\ editor = "modal"
  /\ generator = "current"
  /\ crashed = FALSE
  /\ manualEntities = <<>>
  /\ manualRelationships = <<>>
  /\ InitForm
  /\ InitModal
  /\ inputMode = "unified"
  /\ loading = FALSE
  /\ InitGeneratorState
  /\ InitRendererIdle
  /\ InitDefinitionModal
  /\ InitScriptIdle
  /\ lastOp = NoOp
  /\ returned = NotApplied

InitDiagramText ==
  /\ InitPure
  /\ argument \in UMLRequests

NextDiagramText ==
  \/ ApplyMockGenerateUMLResponse
  \/ ApplyGenerateMockUmlSyntax

SpecDiagramText == InitDiagramText /\ [][NextDiagramText]_vars

\* ---- C13
StartsWith(s, prefix) == Len(s) >= Len(prefix) /\ SubSeq(s, 1, Len(prefix)) = prefix
EndsWith(s, suffix) ==
  Len(s) >= Len(suffix) /\ SubSeq(s, Len(s) - Len(suffix) + 1, Len(s)) = suffix

TemplateSymbol(type) ==
  IF type = "inheritance" THEN <<"-", "-", "|", ">">>
  ELSE IF type = "composition" THEN <<"-", "-", "*">>
  ELSE IF type = "aggregation" THEN <<"-", "-", "o">>
  ELSE IF type = "dependency" THEN <<".", ".", ">">>
  ELSE <<"-", "-", ">">>

TemplateVisibility(v) ==
  IF v = "private" THEN "-" ELSE IF v = "protected" THEN "#" ELSE "+"

\* the line on which the block of the k-th entity starts
RECURSIVE BlockStart(_, _)
BlockStart(entities, k) ==
  IF k = 1 THEN 2
  ELSE BlockStart(entities, k - 1) + 2 + Len(entities[k - 1].attributes)
         + Len(entities[k - 1].methods)

\* C13: the text mockGenerateUMLResponse returns for a request is 'classDiagram', then
\* for each entity in order a block of a class line, one line per attribute and one
\* per method with the visibility sign, and a closing line, then for each relationship
\* in order one line 'source SYMBOL target' with the symbol of its type, followed by
\* ' : label' exactly when the label is non-empty; and nothing else.
C13_FixedTemplate ==
  returned.fn = "mockGenerateUMLResponse" =>
    LET text == returned.value.umlSyntax
        es == argument.entities
        rs == argument.relationships
        relStart == BlockStart(es, Len(es) + 1)
    IN  /\ text[1] = <<"c", "l", "a", "s", "s", "D", "i", "a", "g", "r", "a", "m">>
        /\ Len(text) = relStart + Len(rs) - 1
        /\ \A k \in 1..Len(es) :
             LET b == BlockStart(es, k)
                 nA == Len(es[k].attributes)
                 nM == Len(es[k].methods)
             IN  /\ text[b] = <<" ", " ", "c", "l", "a", "s", "s", " ">> \o es[k].name \o <<" ", "{">>
                 /\ \A a \in 1..nA :
                      text[b + a] = <<" ", " ", " ", " ">> \o <<TemplateVisibility(es[k].attributes[a].visibility)>>
                                      \o es[k].attributes[a].name \o <<" ", ":", " ">> \o es[k].attributes[a].type
                 /\ \A m \in 1..nM :
                      /\ StartsWith(text[b + nA + m],
                                    <<" ", " ", " ", " ">> \o <<TemplateVisibility(es[k].methods[m].visibility)>>
                                      \o es[k].methods[m].name \o <<"(">>)
                      /\ EndsWith(text[b + nA + m], <<")", " ">> \o es[k].methods[m].returnType)
                 /\ text[b + nA + nM + 1] = <<" ", " ", "}">>
        /\ \A i \in 1..Len(rs) :
             LET line == <<" ", " ">> \o rs[i].source \o <<" ">> \o TemplateSymbol(rs[i].type)
                           \o <<" ">> \o rs[i].target
             IN  text[relStart + i - 1] =
                   IF rs[i].label = UNDEFINED \/ rs[i].label = EmptyStr THEN line
                   ELSE line \o <<" ", ":", " ">> \o rs[i].label

\* a request with entities of every visibility and relationships of the five types,
\* with and without a label, has been rendered
C13_Witness ==
  /\ returned.fn = "mockGenerateUMLResponse"
  /\ Len(argument.entities) = Len(EntityPool)
  /\ Len(argument.relationships) = Len(RelationshipPool)

\* ---- C14
\* the entity at which the symbol between source and target carries its marker
MarkerEnd(symbol) ==
  IF Head(symbol) \in {"<", "*", "o"} THEN "source"
  ELSE IF symbol[Len(symbol)] \in {">", "*", "o"} THEN "target"
  ELSE "none"

\* C14 as stated: for every relationship of a request, the symbol generateMockUmlSyntax
\* writes between source and target and the one mockGenerateUMLResponse writes carry
\* their marker at the same entity.
C14_SameMarkerEnd ==
  returned.fn = "generateMockUmlSyntax" =>
    LET local == returned.value
        mock == mockGenerateUMLResponse(argument).umlSyntax
        rs == argument.relationships
    IN  \A i \in 1..Len(rs) :
          \E s, t \in {<<"<", "|", "-", "-">>, <<"*", "-", "-">>, <<"o", "-", "-">>, <<"<", ".", ".">>, <<"-", "-", ">">>, <<"-", "-", "|", ">">>, <<"-", "-", "*">>, <<"-", "-", "o">>, <<".", ".", ">">>} :
            /\ StartsWith(local[Len(local) - Len(rs) + i],
                          RemoveCommas(rs[i].source) \o <<" ">> \o s \o <<" ">>)
            /\ StartsWith(mock[Len(mock) - Len(rs) + i],
                          <<" ", " ">> \o rs[i].source \o <<" ">> \o t \o <<" ">>)
            /\ MarkerEnd(s) = MarkerEnd(t)

\* =========================================================================
\* mockProcessSpecsResponse, first definition (src/src/services/mockData.ts 19-260)
\* =========================================================================
IsSeparator(c) == c \in {".", ",", ";", ":"} \/ IsWhitespace(c)

\* String.prototype.split(/[.,;:\s]/): one separator character at a time, so two
\* separators in a row give an empty word
RECURSIVE SplitSeparators(_, _)
SplitSeparators(s, word) ==
  IF s = <<>> THEN <<word>>
  ELSE IF IsSeparator(Head(s)) THEN <<word>> \o SplitSeparators(Tail(s), <<>>)
  ELSE SplitSeparators(Tail(s), Append(word, Head(s)))

LongerThanThree(word) == Len(word) > 3
\* word[0] === word[0].toUpperCase()
StartsUpperCased(word) == ToUpperCase(<<Head(word)>>) = <<Head(word)>>

commonWords ==
  {<<"t", "h", "e">>, <<"a", "n", "d">>, <<"a">>, <<"a", "n">>, <<"w", "i", "t", "h">>, <<"f", "o", "r">>, <<"t", "o">>, <<"i", "n">>, <<"o", "n">>, <<"a", "t">>,
   <<"b", "y">>, <<"o", "f">>}
NotCommonWord(word) == ToLowerCase(word) \notin commonWords

\* the keys of domainKeywords in insertion order, with their classes
domainKeywords ==
  << [key |-> <<"s", "h", "o", "p">>, classes |-> <<<<"P", "r", "o", "d", "u", "c", "t">>, <<"C", "u", "s", "t", "o", "m", "e", "r">>, <<"O", "r", "d", "e", "r">>, <<"S", "h", "o", "p", "p", "i", "n", "g", "C", "a", "r", "t">>>>],
     [key |-> <<"e", "d", "u", "c", "a", "t", "i", "o", "n">>, classes |-> <<<<"S", "t", "u", "d", "e", "n", "t">>, <<"C", "o", "u", "r", "s", "e">>, <<"P", "r", "o", "f", "e", "s", "s", "o", "r">>, <<"A", "s", "s", "i", "g", "n", "m", "e", "n", "t">>>>],
     [key |-> <<"h", "o", "s", "p", "i", "t", "a", "l">>, classes |-> <<<<"P", "a", "t", "i", "e", "n", "t">>, <<"D", "o", "c", "t", "o", "r">>, <<"A", "p", "p", "o", "i", "n", "t", "m", "e", "n", "t">>, <<"T", "r", "e", "a", "t", "m", "e", "n", "t">>>>],
     [key |-> <<"b", "a", "n", "k">>, classes |-> <<<<"A", "c", "c", "o", "u", "n", "t">>, <<"C", "u", "s", "t", "o", "m", "e", "r">>, <<"T", "r", "a", "n", "s", "a", "c", "t", "i", "o", "n">>, <<"L", "o", "a", "n">>>>],
     [key |-> <<"l", "i", "b", "r", "a", "r", "y">>, classes |-> <<<<"B", "o", "o", "k">>, <<"M", "e", "m", "b", "e", "r">>, <<"L", "i", "b", "r", "a", "r", "i", "a", "n">>, <<"B", "o", "r", "r", "o", "w", "i", "n", "g">>>>],
     [key |-> <<"f", "l", "i", "g", "h", "t">>, classes |-> <<<<"F", "l", "i", "g", "h", "t">>, <<"P", "a", "s", "s", "e", "n", "g", "e", "r">>, <<"B", "o", "o", "k", "i", "n", "g">>, <<"T", "i", "c", "k", "e", "t">>>>] >>

NoClassNames == <<>>
\* the classes of the 'general' domain
generalClassNames == <<<<"U", "s", "e", "r">>, <<"S", "y", "s", "t", "e", "m">>, <<"D", "a", "t", "a">>, <<"M", "a", "n", "a", "g", "e", "r">>>>

\* Object.keys(domainKeywords).find(key => lower.includes(key)) and the lookup
domainClassNames(lower) ==
  LET found == {i \in 1..Len(domainKeywords) : Includes(lower, domainKeywords[i].key)}
  IN  IF found = {} THEN generalClassNames
      ELSE domainKeywords[CHOOSE i \in found : \A j \in found : i <= j].classes

potentialClassNames(desc) ==
  LET words == SelectSeq(SplitSeparators(desc, <<>>), LongerThanThree)
      capitalised == RemoveDuplicates(SelectSeq(words, StartsUpperCased), 1)
      nouns == SelectSeq(words, NotCommonWord)
      fromNouns ==
        SliceTo(RemoveDuplicates([i \in 1..Len(nouns) |-> capitalizeFirstLetter(nouns[i])], 1), 6)
  IN  IF Len(capitalised) >= 2 THEN capitalised
      ELSE IF Len(fromNouns) >= 2 THEN fromNouns
      ELSE domainClassNames(ToLowerCase(desc))

IncludesAny(lower, keywords) == \E k \in keywords : Includes(lower, k)

\* the entity built for a class name
MockSpecsEntity(name, lower) ==
  [name |-> name,
   attributes |->
     << [name |-> <<"i", "d">>, type |-> <<"s", "t", "r", "i", "n", "g">>, visibility |-> "private"],
        [name |-> ToLowerCase(name) \o <<"N", "a", "m", "e">>, type |-> <<"s", "t", "r", "i", "n", "g">>, visibility |-> "private"] >>
     \o (IF IncludesAny(lower, {<<"d", "a", "t", "e">>, <<"t", "i", "m", "e">>})
         THEN <<[name |-> <<"c", "r", "e", "a", "t", "e", "d", "A", "t">>, type |-> <<"D", "a", "t", "e">>, visibility |-> "private"]>> ELSE <<>>)
     \o (IF IncludesAny(lower, {<<"p", "r", "i", "c", "e">>, <<"c", "o", "s", "t">>})
         THEN <<[name |-> <<"p", "r", "i", "c", "e">>, type |-> <<"n", "u", "m", "b", "e", "r">>, visibility |-> "private"]>> ELSE <<>>)
     \o (IF IncludesAny(lower, {<<"s", "t", "a", "t", "u", "s">>, <<"s", "t", "a", "t", "e">>})
         THEN <<[name |-> <<"s", "t", "a", "t", "u", "s">>, type |-> <<"s", "t", "r", "i", "n", "g">>, visibility |-> "private"]>> ELSE <<>>),
   methods |->
     << [name |-> <<"g", "e", "t">> \o name, returnType |-> name, parameters |-> <<>>,
         visibility |-> "public"] >>
     \o (IF IncludesAny(lower, {<<"u", "p", "d", "a", "t", "e">>, <<"e", "d", "i", "t">>})
         THEN <<[name |-> <<"u", "p", "d", "a", "t", "e">> \o name, returnType |-> <<"b", "o", "o", "l", "e", "a", "n">>,
                 parameters |-> <<[name |-> <<"d", "a", "t", "a">>, type |-> name]>>, visibility |-> "public"]>>
         ELSE <<>>)
     \o (IF IncludesAny(lower, {<<"d", "e", "l", "e", "t", "e">>, <<"r", "e", "m", "o", "v", "e">>})
         THEN <<[name |-> <<"d", "e", "l", "e", "t", "e">> \o name, returnType |-> <<"v", "o", "i", "d">>,
                 parameters |-> <<[name |-> <<"i", "d">>, type |-> <<"s", "t", "r", "i", "n", "g">>]>>, visibility |-> "public"]>>
         ELSE <<>>)
     \o (IF IncludesAny(lower, {<<"v", "a", "l", "i", "d", "a", "t", "e">>, <<"c", "h", "e", "c", "k">>})
         THEN <<[name |-> <<"v", "a", "l", "i", "d", "a", "t", "e">>, returnType |-> <<"b", "o", "o", "l", "e", "a", "n">>, parameters |-> <<>>,
                 visibility |-> "public"]>>
         ELSE <<>>)]

\* the relationships pushed for the entities
MockSpecsRelationships(entities, lower) ==
  LET hasAssociation == IncludesAny(lower, {<<"h", "a", "s">>, <<"w", "i", "t", "h">>, <<"c", "o", "n", "t", "a", "i", "n", "s">>})
      hasInheritance == IncludesAny(lower, {<<"i", "n", "h", "e", "r", "i", "t", "s">>, <<"e", "x", "t", "e", "n", "d", "s">>, <<"t", "y", "p", "e", " ", "o", "f">>})
      hasDependency == IncludesAny(lower, {<<"u", "s", "e", "s">>, <<"d", "e", "p", "e", "n", "d", "s">>, <<"r", "e", "q", "u", "i", "r", "e", "s">>})
      hasAggregation == IncludesAny(lower, {<<"c", "o", "n", "s", "i", "s", "t", "s">>, <<"c", "o", "m", "p", "r", "i", "s", "e", "s">>, <<"c", "o", "m", "p", "o", "s", "e", "d">>})
      n == Len(entities)
  IN  IF n < 2 THEN <<>>
      ELSE
        << [source |-> entities[1].name, target |-> entities[2].name,
            type |-> IF hasAssociation THEN "association"
                     ELSE IF hasDependency THEN "dependency" ELSE "association",
            label |-> UNDEFINED] >>
        \o (IF n >= 3
            THEN << [source |-> entities[1].name, target |-> entities[3].name,
                     type |-> IF hasAggregation THEN "aggregation" ELSE "dependency",
                     label |-> IF hasAggregation THEN <<"c", "o", "n", "t", "a", "i", "n", "s">> ELSE <<"u", "s", "e", "s">>] >>
            ELSE <<>>)
        \o (IF n >= 4 /\ hasInheritance
            THEN << [source |-> entities[4].name, target |-> entities[2].name,
                     type |-> "inheritance", label |-> UNDEFINED] >>
            ELSE IF n >= 4
            THEN << [source |-> entities[3].name, target |-> entities[4].name,
                     type |-> "association", label |-> <<"r", "e", "l", "a", "t", "e", "s", " ", "t", "o">>] >>
            ELSE <<>>)
        \o (IF n >= 5
            THEN << [source |-> entities[5].name, target |-> entities[1].name,
                     type |-> "composition", label |-> <<"p", "a", "r", "t", " ", "o", "f">>] >>
            ELSE <<>>)

\* the enhanced description is kept as the parts it is put together from
mockProcessSpecsResponse(desc) ==
  LET lower == ToLowerCase(desc)
      names == potentialClassNames(desc)
      entities == [i \in 1..Len(names) |-> MockSpecsEntity(names[i], lower)]
      relationships == MockSpecsRelationships(entities, lower)
  IN  [enhancedDescription |->
         <<"System Description", NumberToString(Len(entities)), names,
           [i \in 1..Len(relationships) |-> relationships[i].type]>>,
       entities |-> entities,
       relationships |-> relationships]

\* ---- descriptions the two sample extractors are applied to
WordPool ==
  << <<"O", "r", "d", "e", "r">>, <<"I", "t", "e", "m", ",">>, <<"O", "r", "d", "e", "r", ".">>, <<"c", "o", "n", "s", "i", "s", "t", "s">>, <<"e", "x", "t", "e", "n", "d", "s">>, <<"C", "a", "r", "t">>, <<"I", "n", "v", "o", "i", "c", "e">>,
     <<"P", "a", "y", "m", "e", "n", "t">>, <<"w", "i", "t", "h">>, <<"s", "h", "o", "p">>, <<"E", "n", "t", "i", "t", "y", "1">> >>

\* a.join(' ')
RECURSIVE JoinSpace(_)
JoinSpace(a) ==
  IF a = <<>> THEN <<>>
  ELSE IF Len(a) = 1 THEN a[1]
  ELSE a[1] \o <<" ">> \o JoinSpace(Tail(a))

MockDescriptions == {JoinSpace(Pick(WordPool, S, 1)) : S \in SUBSET (1..Len(WordPool))}

\* mockProcessSpecsResponse(argument)
ApplyMockProcessSpecsResponse ==
  /\ returned.fn # "mockProcessSpecsResponse"
  /\ returned' = [fn |-> "mockProcessSpecsResponse", value |-> mockProcessSpecsResponse(argument)]
  /\ lastOp' = NoOp
  /\ UNCHANGED <<editorVars, loading, submitVars, storage, now, pureFrame, argument>>

\* createMockResponse(argument)
ApplyCreateMockResponse ==
  /\ returned.fn # "createMockResponse"
  /\ returned' = [fn |-> "createMockResponse", value |-> createMockResponse(argument)]
  /\ lastOp' = NoOp
  /\ UNCHANGED <<editorVars, loading, submitVars, storage, now, pureFrame, argument>>

InitMockSpecs ==
  /\ InitPure
  /\ argument \in MockDescriptions

NextMockSpecs ==
  \/ ApplyMockProcessSpecsResponse
  \/ ApplyCreateMockResponse

SpecMockSpecs == InitMockSpecs /\ [][NextMockSpecs]_vars

\* ---- C15
\* C15: whatever the description, mockProcessSpecsResponse returns at least two
\* entities, each with an attribute and a method, and at least one relationship, its
\* result passes checkUMLValidity, and it returns 1, 2, 3 or 4 relationships for 2, 3,
\* 4 or at least 5 entities.
C15_MockExtractionValid ==
  returned.fn = "mockProcessSpecsResponse" =>
    LET n == Len(returned.value.entities)
        r == Len(returned.value.relationships)
    IN  /\ n >= 2
        /\ \A i \in 1..n :
             /\ Len(returned.value.entities[i].attributes) >= 1
             /\ Len(returned.value.entities[i].methods) >= 1
        /\ r >= 1
        /\ r = (IF n >= 5 THEN 4 ELSE n - 1)
        /\ checkUMLValidity(returned.value)

\* a description with at least five capitalised words has been processed
C15_Witness ==
  /\ returned.fn = "mockProcessSpecsResponse"
  /\ Len(returned.value.entities) >= 5
  /\ Len(returned.value.relationships) = 4

\* ---- C16
\* C16: the names of the entities mockProcessSpecsResponse returns are pairwise
\* distinct, and every relationship it returns goes from the name of a returned
\* entity to the name of another returned entity.
C16_MockExtractionClosed ==
  returned.fn = "mockProcessSpecsResponse" =>
    LET es == returned.value.entities
        rs == returned.value.relationships
    IN  /\ \A i, j \in 1..Len(es) : i # j => es[i].name # es[j].name
        /\ \A k \in 1..Len(rs) :
             /\ \E i \in 1..Len(es) : es[i].name = rs[k].source
             /\ \E i \in 1..Len(es) : es[i].name = rs[k].target
             /\ rs[k].source # rs[k].target

\* a description that names Order twice has been processed
C16_Witness ==
  /\ returned.fn = "mockProcessSpecsResponse"
  /\ Includes(argument, <<"O", "r", "d", "e", "r", " ", "I", "t", "e", "m", ",", " ", "O", "r", "d", "e", "r", ".">>)

\* ---- C17
\* C17 as stated: whatever the description, createMockResponse returns two or three
\* entities with pairwise distinct names, each with an attribute and a method, and
\* exactly one relationship, between two different returned entities.
C17_SampleModelUsable ==
  returned.fn = "createMockResponse" =>
    LET es == returned.value.entities
        rs == returned.value.relationships
    IN  /\ Len(es) \in {2, 3}
        /\ \A i, j \in 1..Len(es) : i # j => es[i].name # es[j].name
        /\ \A i \in 1..Len(es) : Len(es[i].attributes) >= 1 /\ Len(es[i].methods) >= 1
        /\ Len(rs) = 1
        /\ \E i, j \in 1..Len(es) :
             i # j /\ es[i].name = rs[1].source /\ es[j].name = rs[1].target
        /\ rs[1].source # rs[1].target

\* =========================================================================
\* Claims about the messages and the failed-attempt counter of the submit flow
\* =========================================================================
\* C18 as stated: when a submit in which processSpecs or generateUML was rejected ends
\* with a success message, the message is "UML diagram generated (in offline mode)" and
\* not "UML diagram generated and saved to database".
C18_OfflineReported ==
  (/\ lastOp.op = "succeeded"
   /\ (HasCall("processSpecs", "rejected") \/ HasCall("generateUML", "rejected"))) =>
    /\ HasToast(SuccessToast(OfflineMessage))
    /\ ~HasToast(SuccessToast(SavedMessage))

\* C19: failedAttempts starts at 0, every unified submit rejected by the required
\* words or by checkUMLValidity adds one to it, a successful unified generation sets
\* it to 0 and nothing else changes it; the step of a rejected submit leaves the
\* definition modal open exactly when the new count is at least 3.
C19_FailedAttemptsCounter ==
  [][LET rejected == lastOp'.op \in {"missingWords", "invalidModel"}
         unifiedSuccess ==
           /\ lastOp'.op = "succeeded"
           /\ \E f \in FlowIds : flows[f].pc = "saving" /\ flows[f].mode = "unified"
     IN  /\ rejected => /\ failedAttempts' = failedAttempts + 1
                        /\ showDefinition' <=> (failedAttempts' >= 3)
         /\ unifiedSuccess => failedAttempts' = 0
         /\ (~rejected /\ ~unifiedSuccess) => failedAttempts' = failedAttempts]_vars

\* a third rejection, by checkUMLValidity, has opened the modal
C19_Witness ==
  /\ lastOp.op = "invalidModel"
  /\ failedAttempts = 3
  /\ showDefinition

\* =========================================================================
\* UMLDefinitionModal (src/unnamed/part_009), mounted by UMLGenerator with
\* open = showDefinition and onClose = () => setShowDefinition(false)
\* =========================================================================
\* the effects of the last commit have run
EffectsFlushed == effectOpen = showDefinition

\* the effect of [open], run after a commit in which `open` changed. attached says
\* whether modalRef.current is set at that moment: the div is a descendant of
\* DialogContent, which the dialog library (not part of the source tree) mounts
\* either in the commit that opens the dialog or in a render after it
OpenEffect(attached) ==
  /\ ~EffectsFlushed
  /\ effectOpen' = showDefinition
  /\ scrolledToBottom' = IF showDefinition /\ attached THEN FALSE ELSE scrolledToBottom
  /\ bottomSeen' = IF showDefinition THEN FALSE ELSE bottomSeen
  /\ lastOp' = NoOp
  /\ UNCHANGED <<editorVars, loading, submitVars, storage, now, definitionFrame>>

\* the scroll area: maxHeight 260, and content higher than that
ScrollGeometry == [clientHeight |-> 260, scrollHeight |-> 360]
ScrollPositions == {0, 50, 100}

\* handleScroll() with the div scrolled to scrollTop
handleScroll(scrollTop) ==
  /\ showDefinition
  /\ EffectsFlushed
  /\ LET atBottom == scrollTop + ScrollGeometry.clientHeight + 10 >= ScrollGeometry.scrollHeight
     IN  /\ scrolledToBottom' = IF atBottom THEN TRUE ELSE scrolledToBottom
         /\ bottomSeen' = IF atBottom THEN TRUE ELSE bottomSeen
  /\ lastOp' = [op |-> "scroll"]
  /\ UNCHANGED <<editorVars, loading, submitVars, storage, now, definitionFrame, effectOpen>>

\* the button (disabled={!scrolledToBottom}) is clicked: onClose()
ClickUnderstand ==
  /\ showDefinition
  /\ EffectsFlushed
  /\ scrolledToBottom
  /\ showDefinition' = FALSE
  /\ lastOp' = [op |-> "closeDefinition"]
  /\ UNCHANGED <<editorVars, historyVars, loading, generator, description, inputMode, processingStep,
                 processedSpecs, umlSyntax, activeTab, lastDiagramId, failedAttempts,
                 apiConnectionError, flows, toasts, calls>>

\* Escape, a click outside, or the dialog's own close control: onOpenChange(false),
\* which is () => {}
DismissAttempt ==
  /\ showDefinition
  /\ EffectsFlushed
  /\ lastOp' = [op |-> "dismiss"]
  /\ UNCHANGED <<editorVars, loading, submitVars, historyVars>>

\* the user of the generator acts only once the effects have run
DefinitionSetDescription(d) == EffectsFlushed /\ SetDescription(d)
DefinitionSubmitMissingWords == EffectsFlushed /\ SubmitMissingWords

InitDefinition == InitSubmit

NextDefinition ==
  \/ \E d \in DescriptionInputs : DefinitionSetDescription(d)
  \/ DefinitionSubmitMissingWords
  \/ \E attached \in BOOLEAN : OpenEffect(attached)
  \/ \E scrollTop \in ScrollPositions : handleScroll(scrollTop)
  \/ ClickUnderstand
  \/ DismissAttempt

SpecDefinition == InitDefinition /\ [][NextDefinition]_vars

\* C20 as stated, its second half: while the modal is open, its button is enabled
\* only if handleScroll has found the bottom since the modal was last opened.
C20_ButtonNeedsScroll ==
  (showDefinition /\ EffectsFlushed /\ scrolledToBottom) => bottomSeen

\* =========================================================================
\* The entity editor overlay of EntityRelationshipEditor.tsx while a separate-mode
\* submit is in flight. The overlay's controls carry no disabled prop, and the
\* overlay is a plain div: the Generate button stays reachable by keyboard.
\* =========================================================================
\* handleDeleteAttribute(index), the trash button of a row in the overlay
handleDeleteAttribute(index) ==
  /\ editor = "modal" /\ ~crashed
  /\ editingEntity # <<>>
  /\ index \in 1..Len(editingEntity[1].attributes)
  /\ editingEntity' = <<[editingEntity[1] EXCEPT
                           !.attributes = Spliced(editingEntity[1].attributes, index)]>>
  /\ lastOp' = NoOp
  /\ UNCHANGED <<editor, crashed, modelVars, formVars, newEntityName, newRelationship,
                 appVars>>

\* handleDeleteMethod(index)
handleDeleteMethod(index) ==
  /\ editor = "modal" /\ ~crashed
  /\ editingEntity # <<>>
  /\ index \in 1..Len(editingEntity[1].methods)
  /\ editingEntity' = <<[editingEntity[1] EXCEPT
                           !.methods = Spliced(editingEntity[1].methods, index)]>>
  /\ lastOp' = NoOp
  /\ UNCHANGED <<editor, crashed, modelVars, formVars, newEntityName, newRelationship,
                 appVars>>

InitOverlay == InitSubmit

NextOverlay ==
  \/ \E value \in {"unified", "separate"} : SetInputMode(value)
  \/ \E index \in 1..MaxEntities : ModalEditEntity(index)
  \/ \E index \in 1..MaxEntities : handleDeleteAttribute(index)
  \/ \E index \in 1..MaxEntities : handleDeleteMethod(index)
  \/ ModalSaveEntity
  \/ ModalCancelEdit
  \/ SubmitSeparateInvalid
  \/ SubmitSeparate
  \/ \E f \in FlowIds : GenerateUMLResolved(f)
  \/ \E f \in FlowIds : GenerateUMLRejected(f)
  \/ \E f \in FlowIds : FinishSubmit(f)

SpecOverlay == InitOverlay /\ [][NextOverlay]_vars

\* C21 as stated: no step taken while loading is true changes manualEntities or
\* manualRelationships, and the step that ends a separate-mode submit leaves in
\* processedSpecs the model that was sent to generateUML, which is the editor's model
\* at that moment.
C21_NoMutationDuringRequest ==
  [][/\ loading => (manualEntities' = manualEntities /\ manualRelationships' = manualRelationships)
     /\ \A f \in FlowIds :
          (lastOp'.op = "succeeded" /\ flows[f].pc = "saving" /\ flows[f].mode = "separate") =>
            /\ processedSpecs' = flows[f].specs
            /\ processedSpecs' = <<ManualSpecs(manualEntities', manualRelationships')>>]_vars

\* =========================================================================
\* src/backend/wait-for-mysql.sh, run by bash with set -e
\* =========================================================================
MaxProbes == 5

\* what the script is called with: host, port and the words of the command
ScriptArgInputs ==
  { <<>>,
    <<<<"d", "b">>>>,
    <<<<"d", "b">>, <<"3", "3", "0", "6">>>>,
    <<<<"d", "b">>, <<"3", "3", "0", "6">>, <<"n", "p", "m">>>>,
    <<<<"d", "b">>, <<"3", "3", "0", "6">>, <<"n", "p", "m">>, <<"s", "t", "a", "r", "t">>>>,
    <<<<"d", "b">>, <<"3", "3", "0", "6">>, <<"s", "h">>, <<"-", "c">>, <<"n", "p", "m", " ", "s", "t", "a", "r", "t">>>> }

NonEmptyWord(word) == word # <<>>
\* the fields of an unquoted $cmd: split at whitespace, empty fields dropped
ShellWords(s) == SelectSeq(SplitWhitespace(s, <<>>, FALSE), NonEmptyWord)

LoopEndsOnFailure(status) == status # 0
\* `until nc ...`: the loop ends when nc exits with status 0
LoopEnds(status) == status = 0

\* lines 6-9: host="$1"; port="$2"; shift 2; cmd="$@". shift fails when there are
\* fewer than two parameters, and set -e ends the script
ParseArguments ==
  /\ scriptPc = "shift"
  /\ IF Len(scriptArgs) >= 2
     THEN /\ cmd' = JoinSpace(SubSeq(scriptArgs, 3, Len(scriptArgs)))
          /\ scriptPc' = "probe"
     ELSE /\ cmd' = cmd
          /\ scriptPc' = "exited"
  /\ lastOp' = NoOp
  /\ UNCHANGED <<editorVars, loading, submitVars, storage, now, scriptFrame, scriptArgs, probes,
                 output, started>>

\* line 11: nc -z -v -w30 "$host" "$port" exits with status
Probe(status) ==
  /\ scriptPc = "probe"
  /\ Len(probes) < MaxProbes
  /\ probes' = Append(probes, status)
  /\ scriptPc' = IF LoopEnds(status) THEN "up" ELSE "unavailable"
  /\ lastOp' = NoOp
  /\ UNCHANGED <<editorVars, loading, submitVars, storage, now, scriptFrame, scriptArgs, cmd,
                 output, started>>

\* line 12
EchoUnavailable ==
  /\ scriptPc = "unavailable"
  /\ output' = Append(output, "MySQL is unavailable - waiting")
  /\ scriptPc' = "sleep"
  /\ lastOp' = NoOp
  /\ UNCHANGED <<editorVars, loading, submitVars, storage, now, scriptFrame, scriptArgs, cmd,
                 probes, started>>

\* line 13: sleep 2, then back to the loop condition
Sleep ==
  /\ scriptPc = "sleep"
  /\ scriptPc' = "probe"
  /\ lastOp' = NoOp
  /\ UNCHANGED <<editorVars, loading, submitVars, storage, now, scriptFrame, scriptArgs, cmd,
                 probes, output, started>>

\* line 16
EchoUp ==
  /\ scriptPc = "up"
  /\ output' = Append(output, "MySQL is up - executing command")
  /\ scriptPc' = "exec"
  /\ lastOp' = NoOp
  /\ UNCHANGED <<editorVars, loading, submitVars, storage, now, scriptFrame, scriptArgs, cmd,
                 probes, started>>

\* line 17: exec $cmd. With no word left exec does nothing and the script ends;
\* otherwise the command replaces the shell
Exec ==
  /\ scriptPc = "exec"
  /\ IF ShellWords(cmd) = <<>>
     THEN /\ started' = started
          /\ scriptPc' = "exited"
     ELSE /\ started' = Append(started, ShellWords(cmd))
          /\ scriptPc' = "replaced"
  /\ lastOp' = NoOp
  /\ UNCHANGED <<editorVars, loading, submitVars, storage, now, scriptFrame, scriptArgs, cmd,
                 probes, output>>

InitScript ==
  /\ editor = "modal"
  /\ generator = "current"
  /\ crashed = FALSE
  /\ manualEntities = <<>>
  /\ manualRelationships = <<>>
  /\ InitForm
  /\ InitModal
  /\ inputMode = "unified"
  /\ loading = FALSE
  /\ InitGeneratorState
  /\ InitRendererIdle
  /\ InitPureIdle
  /\ InitDefinitionModal
  /\ lastOp = NoOp
  /\ scriptArgs \in ScriptArgInputs
  /\ scriptPc = "shift"
  /\ cmd = EmptyStr
  /\ probes = <<>>
  /\ output = <<>>
  /\ started = <<>>

NextScript ==
  \/ ParseArguments
  \/ \E status \in {0, 1} : Probe(status)
  \/ EchoUnavailable
  \/ Sleep
  \/ EchoUp
  \/ Exec

SpecScript == InitScript /\ [][NextScript]_vars

\* C22: the command is started at most once and only after a probe has succeeded; no
\* probe follows a successful one, and after it the script only announces and starts
\* the command; after a failed probe the script announces, waits and probes again,
\* and never ends or starts the command.
C22_CommandAfterSuccessfulProbe ==
  /\ Len(started) <= 1
  /\ started # <<>> => \E i \in 1..Len(probes) : probes[i] = 0
  /\ \A i \in 1..(Len(probes) - 1) : probes[i] # 0
  /\ (probes # <<>> /\ probes[Len(probes)] = 0) =>
       /\ scriptPc \in {"up", "exec", "replaced", "exited"}
       /\ (scriptPc = "replaced") <=> (started # <<>>)
       /\ (scriptPc = "exited") => ShellWords(cmd) = <<>>
  /\ (probes # <<>> /\ probes[Len(probes)] # 0) =>
       /\ scriptPc \in {"unavailable", "sleep", "probe"}
       /\ started = <<>>
  /\ probes = <<>> => started = <<>>

\* the command was started after two failed probes and a successful one
C22_Witness ==
  /\ started # <<>>
  /\ Len(probes) = 3
  /\ scriptPc = "replaced"

====
